---- MODULE Spec2Model ----
(***************************************************************************)
(* A model of the httx request router (a fork of fasthttp/router):         *)
(* the radix tree (package radix) and the dispatcher Mux.                  *)
(*                                                                         *)
(* Strings of the program are sequences of one-character strings, and the  *)
(* Go slice s[a:b] is Slice(s, a, b), with Go's 0-based offsets.           *)
(***************************************************************************)
EXTENDS Integers, Sequences, FiniteSets, TLC

(***************************************************************************)
(* Strings                                                                 *)
(***************************************************************************)
Slice(s, a, b) == SubSeq(s, a + 1, b)

From(s, a) == SubSeq(s, a + 1, Len(s))

HasPrefix(s, p) == Len(p) <= Len(s) /\ SubSeq(s, 1, Len(p)) = p

HasSuffix(s, p) == Len(p) <= Len(s) /\ SubSeq(s, Len(s) - Len(p) + 1, Len(s)) = p

TrimPrefix(s, p) == IF HasPrefix(s, p) THEN From(s, Len(p)) ELSE s

TrimSuffix(s, p) == IF HasSuffix(s, p) THEN Slice(s, 0, Len(s) - Len(p)) ELSE s

Min(a, b) == IF a < b THEN a ELSE b

\* The letters the model's paths use in both cases.
ToLower(c) == IF c = "A" THEN "a" ELSE IF c = "B" THEN "b" ELSE IF c = "S" THEN "s" ELSE c

EqualFold(a, b) == Len(a) = Len(b) /\ \A i \in 1..Len(a) : ToLower(a[i]) = ToLower(b[i])

longestCommonPrefix(a, b) ==
    CHOOSE i \in 0..Min(Len(a), Len(b)) :
        /\ \A j \in 1..i : a[j] = b[j]
        /\ (i = Min(Len(a), Len(b)) \/ a[i + 1] # b[i + 1])

\* The offset of the first '/' of path, or its length; with includeTSR a
\* final lone '/' belongs to the segment.
segmentEndIndex(path, includeTSR) ==
    LET end == CHOOSE e \in 0..Len(path) :
                   /\ \A j \in 1..e : path[j] # "/"
                   /\ (e = Len(path) \/ path[e + 1] = "/")
    IN  IF includeTSR /\ From(path, end) = <<"/">> THEN end + 1 ELSE end

(***************************************************************************)
(* Handlers.  A handler stored in a tree is the closure Mux.Handle builds:  *)
(* the registered function (kind, id, and for a mounted external handler    *)
(* the prefix it strips), the middleware chain and the error sink captured  *)
(* at registration.                                                        *)
(***************************************************************************)
NilHandler == [kind |-> "nil", id |-> 0, noStar |-> <<>>, mw |-> <<>>, onerr |-> "nil"]

UserHandler(id) == [kind |-> "user", id |-> id, noStar |-> <<>>, mw |-> <<>>, onerr |-> "nil"]

(***************************************************************************)
(* radix: node types                                                       *)
(***************************************************************************)
root == 0

static == 1

param == 2

wildcard == 3

errSetHandler == "a handler is already registered for path"

errSetWildcardHandler == "a wildcard handler is already registered for path"

errWildPathConflict == "wildcard route conflicts with existing wildcard in path"

errWildcardConflict == "wildcard conflicts with existing wildcard in path"

errWildcardSlash == "no / before wildcard in path"

errWildcardNotAtEnd == "wildcard routes are only allowed at the end of the path"

NoWildcard == [set |-> FALSE, path |-> <<>>, paramKey |-> <<>>, handler |-> NilHandler]

NoRegex == [set |-> FALSE, class |-> {}, min |-> 0]

newNode(path) ==
    [nType |-> static, path |-> path, tsr |-> FALSE, handler |-> NilHandler,
     hasWildChild |-> FALSE, children |-> <<>>, wildcard |-> NoWildcard,
     paramKeys |-> <<>>, paramRegex |-> NoRegex]

(***************************************************************************)
(* Regular expressions of parameter constraints.  The model compiles the   *)
(* two constraints its patterns use: [0-9]+ and .* ; a compiled expression  *)
(* is the class of bytes it repeats and the least number of repetitions.   *)
(***************************************************************************)
DigitChars == {"0", "1", "2", "3", "4", "5", "6", "7", "8", "9"}

AnyChars == DigitChars \cup {"a", "b", "s", "x", "A", "B", "S", "{", "}", ":", "*", ".", "?", "%", "[", "]", "+", "-"}

regexpCompile(pattern) ==
    IF pattern = <<"[", "0", "-", "9", "]", "+">>
    THEN [set |-> TRUE, class |-> DigitChars, min |-> 1]
    ELSE [set |-> TRUE, class |-> AnyChars, min |-> 0]

\* The end of the leftmost-longest match of the expression at the start of
\* text, or -1.
findEndIndex(regex, text) ==
    LET e == CHOOSE k \in 0..Len(text) :
                 /\ \A j \in 1..k : text[j] \in regex.class
                 /\ (k = Len(text) \/ text[k + 1] \notin regex.class)
    IN  IF e >= regex.min THEN e ELSE -1

(***************************************************************************)
(* findWildPath: the first {...} element of path.                          *)
(***************************************************************************)
RECURSIVE closingBrace(_, _, _)
\* The 1-based position of the '}' closing the '{' before position k, with
\* depth nested braces open; 0 when there is none.
closingBrace(path, k, depth) ==
    IF k > Len(path) THEN 0
    ELSE IF path[k] = "{" THEN closingBrace(path, k + 1, depth + 1)
    ELSE IF path[k] = "}" THEN
        IF depth > 0 THEN closingBrace(path, k + 1, depth - 1) ELSE k
    ELSE closingBrace(path, k + 1, depth)

\* s and e are the 1-based positions of the braces, c the position of the
\* first ':' in the key between them (0 for none).
findWildPath(path) ==
    LET opens == {k \in 1..Len(path) : path[k] = "{"}
        none == [found |-> FALSE, start |-> 0, end |-> 0, path |-> <<>>, keys |-> <<>>,
                 pType |-> static, regex |-> NoRegex]
        parsed(s, e, key, c) ==
            [found |-> TRUE, start |-> s - 1, end |-> e, path |-> SubSeq(path, s, e),
             keys |-> <<IF c = 0 THEN key ELSE SubSeq(key, 1, c - 1)>>,
             pType |-> IF c # 0 /\ SubSeq(key, c + 1, Len(key)) = <<"*">>
                       THEN wildcard ELSE param,
             regex |-> IF c # 0 /\ SubSeq(key, c + 1, Len(key)) # <<"*">>
                       THEN regexpCompile(SubSeq(key, c + 1, Len(key))) ELSE NoRegex]
        keyed(s, e, key) ==
            parsed(s, e, key, IF \E k \in 1..Len(key) : key[k] = ":"
                              THEN CHOOSE k \in 1..Len(key) :
                                       /\ key[k] = ":"
                                       /\ \A j \in 1..k - 1 : key[j] # ":"
                              ELSE 0)
        closed(s, e) == IF e = 0 THEN none ELSE keyed(s, e, SubSeq(path, s + 1, e - 1))
        opened(s) == closed(s, closingBrace(path, s + 1, 0))
    IN  IF opens = {} THEN none
        ELSE opened(CHOOSE k \in opens : \A k2 \in opens : k <= k2)

(***************************************************************************)
(* radix: the node.  Operations that change a node in place return the     *)
(* changed node; add and insert return with it the node their Go           *)
(* counterparts return, as the list of child indexes that leads to it      *)
(* (loc), ok = FALSE standing for a nil node, and the error ("" for nil).  *)
(***************************************************************************)
MinOf(S) == CHOOSE k \in S : \A k2 \in S : k <= k2

tsrNode == [newNode(<<"/">>) EXCEPT !.tsr = TRUE]

split(n, i) ==
    LET cloneChild == [n EXCEPT !.nType = static, !.path = From(n.path, i),
                                !.paramKeys = <<>>, !.paramRegex = NoRegex]
    IN  [n EXCEPT !.path = Slice(n.path, 0, i), !.handler = NilHandler, !.tsr = FALSE,
                  !.wildcard = NoWildcard, !.children = <<cloneChild>>]

setHandler(n, handler) ==
    IF n.handler # NilHandler \/ n.tsr
    THEN [n |-> n, loc |-> <<>>, ok |-> TRUE, err |-> errSetHandler]
    ELSE LET n1 == [n EXCEPT !.handler = handler]
             slash == {k \in 1..Len(n.children) : n.children[k].path = <<"/">>}
             n2 == IF slash # {} THEN [n1 EXCEPT !.children[MinOf(slash)].tsr = TRUE]
                   ELSE IF n.path = <<"/">> THEN n1
                   ELSE IF HasSuffix(n.path, <<"/">>)
                        THEN [split(n1, Len(n.path) - 1) EXCEPT !.tsr = TRUE]
                        ELSE [n1 EXCEPT !.children = Append(@, tsrNode)]
         IN  [n |-> n2, loc |-> <<>>, ok |-> TRUE, err |-> ""]

\* The result of an operation on child k of n, seen from n.
inChild(n, k, r) ==
    [n |-> [n EXCEPT !.children[k] = r.n], loc |-> <<k>> \o r.loc, ok |-> r.ok, err |-> r.err]

\* The result of an operation on a node appended to the children of n.
inNewChild(n, r) ==
    [n |-> [n EXCEPT !.children = Append(@, r.n)], loc |-> <<Len(n.children) + 1>> \o r.loc,
     ok |-> r.ok, err |-> r.err]

\* The end of insert: child is the last node of the route.
attach(n, child, handler) ==
    LET c1 == [child EXCEPT !.handler = handler]
        c2 == IF c1.path = <<"/">> THEN c1
              ELSE IF HasSuffix(c1.path, <<"/">>)
                   THEN [split(c1, Len(c1.path) - 1) EXCEPT !.tsr = TRUE]
                   ELSE [c1 EXCEPT !.children = Append(@, tsrNode)]
        n1 == IF c1.path = <<"/">> THEN [n EXCEPT !.tsr = TRUE] ELSE n
    IN  inNewChild(n1, [n |-> c2, loc |-> <<>>, ok |-> TRUE, err |-> ""])

RECURSIVE insert(_, _, _)
insert(n, path, handler) ==
    LET \* The wildcard wp on n1, which is n after its trailing "/" was split
        \* off into the node at loc.
        hold(wp, n1, loc) ==
            LET holder == IF loc = <<>> THEN n1 ELSE n1.children[1]
                held == [path |-> wp.path, paramKey |-> wp.keys[1], handler |-> handler,
                         set |-> TRUE]
            IN  IF holder.wildcard.set
                THEN IF holder.wildcard.path = path
                     THEN [n |-> n1, loc |-> loc, ok |-> TRUE, err |-> errSetWildcardHandler]
                     ELSE [n |-> n1, loc |-> <<>>, ok |-> FALSE, err |-> errWildcardConflict]
                ELSE [n |-> IF loc = <<>> THEN [n1 EXCEPT !.wildcard = held]
                                          ELSE [n1 EXCEPT !.children[1].wildcard = held],
                      loc |-> loc, ok |-> TRUE, err |-> ""]
        param1(wp, child) ==
            IF Len(path) > wp.end
            THEN inNewChild([n EXCEPT !.hasWildChild = TRUE],
                            insert(child, From(path, wp.end), handler))
            ELSE attach([n EXCEPT !.hasWildChild = TRUE], child, handler)
        wild(wp) ==
            IF ~wp.found THEN attach(n, newNode(path), handler)
            ELSE IF wp.start > 0
            THEN inNewChild(n, insert(newNode(Slice(path, 0, wp.start)), From(path, wp.start),
                                      handler))
            ELSE IF wp.pType = param
            THEN param1(wp, [newNode(wp.path) EXCEPT !.nType = param, !.paramKeys = wp.keys,
                                                     !.paramRegex = wp.regex])
            ELSE IF Len(path) # wp.end
            THEN [n |-> n, loc |-> <<>>, ok |-> FALSE, err |-> errWildcardNotAtEnd]
            ELSE IF ~HasSuffix(n.path, <<"/">>)
            THEN [n |-> n, loc |-> <<>>, ok |-> FALSE, err |-> errWildcardSlash]
            ELSE IF n.path # <<"/">>
            THEN hold(wp, [split(n, Len(n.path) - 1) EXCEPT !.tsr = TRUE], <<1>>)
            ELSE hold(wp, n, <<>>)
    IN  wild(findWildPath(path))

RECURSIVE add(_, _, _)
add(n, path, handler) ==
    LET \* The end of the route is child k of n: r is what setHandler did to it.
        \* A node without a handler, one separator away from the route, is
        \* from now on reachable by removing the trailing slash only.
        ended(k, r) ==
            inChild(IF path = <<"/">> /\ r.err = "" /\ n.handler = NilHandler
                    THEN [n EXCEPT !.tsr = TRUE] ELSE n, k, r)
        \* Child k of n shares the first i bytes of path.
        shared(k, i, child) ==
            IF Len(path) > i THEN inChild(n, k, add(child, From(path, i), handler))
            ELSE ended(k, setHandler(child, handler))
        prefixed(k, i) ==
            shared(k, i, IF Len(n.children[k].path) > i
                         THEN split(n.children[k], i) ELSE n.children[k])
        \* The parameter wp, which child k of n holds already.
        known(wp, k) ==
            IF Len(path) = wp.end THEN inChild(n, k, setHandler(n.children[k], handler))
            ELSE inChild(n, k, add(n.children[k], From(path, wp.end), handler))
        \* The first child of n that holds the parameter wp, or 0.
        same(wp) ==
            IF \E k \in 1..Len(n.children) :
                   n.children[k].nType = param /\ n.children[k].path = wp.path
            THEN CHOOSE k \in 1..Len(n.children) :
                     /\ n.children[k].nType = param /\ n.children[k].path = wp.path
                     /\ \A j \in 1..k - 1 :
                            ~(n.children[j].nType = param /\ n.children[j].path = wp.path)
            ELSE 0
        \* The first child of n that shares a prefix with path, or 0.
        hit ==
            IF \E k \in 1..Len(n.children) :
                   /\ n.children[k].nType # param
                   /\ longestCommonPrefix(path, n.children[k].path) > 0
            THEN CHOOSE k \in 1..Len(n.children) :
                     /\ n.children[k].nType # param
                     /\ longestCommonPrefix(path, n.children[k].path) > 0
                     /\ \A j \in 1..k - 1 :
                            \/ n.children[j].nType = param
                            \/ longestCommonPrefix(path, n.children[j].path) = 0
            ELSE 0
        \* The loop over the children of n ended at child k, or at none (0).
        at(wp, wild, k) ==
            IF wild /\ k # 0 THEN known(wp, k)
            ELSE IF /\ wild /\ wp.pType = param /\ Len(path) = wp.end
                    /\ \E j \in 1..Len(n.children) :
                           /\ n.children[j].nType = param
                           /\ n.children[j].handler # NilHandler
            THEN [n |-> n, loc |-> <<>>, ok |-> FALSE, err |-> errWildPathConflict]
            ELSE IF k # 0
            THEN prefixed(k, longestCommonPrefix(path, n.children[k].path))
            ELSE insert(n, path, handler)
        route(wp) ==
            IF path[1] = "{" /\ wp.found
            THEN at(wp, TRUE, IF wp.pType = param THEN same(wp) ELSE 0)
            ELSE at(wp, FALSE, hit)
    IN  IF Len(path) = 0 THEN setHandler(n, handler)
        ELSE route(findWildPath(path))

\* sort.Sort over the children: by node type, then by the number of children,
\* largest first (an insertion sort for the lengths the model reaches).
Less(a, b) ==
    \/ a.nType < b.nType
    \/ a.nType = b.nType /\ Len(a.children) > Len(b.children)

RECURSIVE insertionSort(_, _)
insertionSort(done, rest) ==
    IF rest = <<>> THEN done
    ELSE LET x == Head(rest)
             before == {k \in 0..Len(done) : \A j \in k + 1..Len(done) : Less(x, done[j])}
             k == MinOf(before)
         IN  insertionSort(SubSeq(done, 1, k) \o <<x>> \o SubSeq(done, k + 1, Len(done)),
                           Tail(rest))

RECURSIVE sort(_)
sort(n) ==
    [n EXCEPT !.children = insertionSort(<<>>, [k \in 1..Len(n.children) |-> sort(n.children[k])])]

(***************************************************************************)
(* radix: lookup.  Path values are a set of <<key, value>> pairs; a result *)
(* is the handler, the trailing slash recommendation and the path values.  *)
(***************************************************************************)
SetPathValue(hasReq, pv, key, value) ==
    IF hasReq THEN {p \in pv : p[1] # key} \cup {<<key, value>>} ELSE pv

RECURSIVE setValues(_, _, _, _)
setValues(hasReq, pv, keys, value) ==
    IF keys = <<>> THEN pv
    ELSE setValues(hasReq, SetPathValue(hasReq, pv, Head(keys), value), Tail(keys), value)

notFound(pv) == [h |-> NilHandler, tsr |-> FALSE, pv |-> pv]

RECURSIVE getFromChildAt(_, _, _, _, _)
\* The loop of getFromChild from child k on.
getFromChildAt(n, path, k, hasReq, pv) ==
    IF k > Len(n.children)
    THEN IF n.wildcard.set
         THEN [h |-> n.wildcard.handler, tsr |-> FALSE,
               pv |-> SetPathValue(hasReq, pv, n.wildcard.paramKey, path)]
         ELSE notFound(pv)
    ELSE LET child == n.children[k]
             next == getFromChildAt(n, path, k + 1, hasReq, pv)
         IN  IF child.nType # param
             THEN IF path[1] # child.path[1] THEN next
                  ELSE IF Len(path) > Len(child.path)
                  THEN IF ~HasPrefix(path, child.path) THEN next
                       ELSE LET r == getFromChildAt(child, From(path, Len(child.path)), 1, hasReq, pv)
                            IN  IF r.h # NilHandler \/ r.tsr THEN r ELSE next
                  ELSE IF path = child.path
                  THEN IF child.tsr THEN [h |-> NilHandler, tsr |-> TRUE, pv |-> pv]
                       ELSE IF child.handler # NilHandler
                       THEN [h |-> child.handler, tsr |-> FALSE, pv |-> pv]
                       ELSE IF child.wildcard.set
                       THEN [h |-> child.wildcard.handler, tsr |-> FALSE,
                             pv |-> SetPathValue(hasReq, pv, child.wildcard.paramKey, <<>>)]
                       ELSE notFound(pv)
                  ELSE next
             ELSE LET seg == segmentEndIndex(path, FALSE)
                      end == IF child.paramRegex.set
                             THEN findEndIndex(child.paramRegex, Slice(path, 0, seg)) ELSE seg
                  IN  IF end = -1 THEN next
                      ELSE IF Len(path) > end
                      THEN LET r == getFromChildAt(child, From(path, end), 1, hasReq, pv)
                           IN  IF r.tsr THEN [h |-> NilHandler, tsr |-> TRUE, pv |-> pv]
                               ELSE IF r.h # NilHandler
                               THEN [h |-> r.h, tsr |-> FALSE,
                                     pv |-> setValues(hasReq, r.pv, child.paramKeys, Slice(path, 0, end))]
                               ELSE next
                      ELSE IF child.tsr THEN [h |-> NilHandler, tsr |-> TRUE, pv |-> pv]
                      ELSE IF child.handler = NilHandler THEN next
                      ELSE [h |-> child.handler, tsr |-> FALSE,
                            pv |-> setValues(hasReq, pv, child.paramKeys, Slice(path, 0, end))]

getFromChild(n, path, hasReq, pv) == getFromChildAt(n, path, 1, hasReq, pv)

(***************************************************************************)
(* radix: case-insensitive lookup.  A result is found, the trailing slash  *)
(* flag and the buffer with the case-corrected path.                       *)
(***************************************************************************)
RECURSIVE find(_, _, _), findFromChildAt(_, _, _, _)
find(n, path, buf) ==
    IF Len(path) > Len(n.path)
    THEN IF ~EqualFold(Slice(path, 0, Len(n.path)), n.path)
         THEN [found |-> FALSE, tsr |-> FALSE, buf |-> buf]
         ELSE LET r == findFromChildAt(n, From(path, Len(n.path)), 1, buf \o n.path)
              IN  IF r.found THEN r ELSE [found |-> FALSE, tsr |-> FALSE, buf |-> buf]
    ELSE IF EqualFold(path, n.path)
    THEN IF n.tsr
         THEN [found |-> TRUE, tsr |-> TRUE,
               buf |-> IF n.path = <<"/">> THEN buf ELSE buf \o n.path \o <<"/">>]
         ELSE IF n.handler # NilHandler
         THEN [found |-> TRUE, tsr |-> FALSE, buf |-> buf \o n.path]
         ELSE [found |-> FALSE, tsr |-> FALSE, buf |-> buf]
    ELSE [found |-> FALSE, tsr |-> FALSE, buf |-> buf]

\* The loop of findFromChild from child k on.
findFromChildAt(n, path, k, buf) ==
    IF k > Len(n.children)
    THEN IF n.wildcard.set
         THEN [found |-> TRUE, tsr |-> FALSE, buf |-> buf \o path]
         ELSE [found |-> FALSE, tsr |-> FALSE, buf |-> buf]
    ELSE LET child == n.children[k]
             next == findFromChildAt(n, path, k + 1, buf)
         IN  IF child.nType # param
             THEN LET r == find(child, path, buf) IN IF r.found THEN r ELSE next
             ELSE LET seg == segmentEndIndex(path, FALSE)
                      end == IF child.paramRegex.set
                             THEN findEndIndex(child.paramRegex, Slice(path, 0, seg)) ELSE seg
                  IN  IF end = -1 THEN next
                      ELSE IF Len(path) > end
                      THEN LET r == findFromChildAt(child, From(path, end), 1,
                                                    buf \o Slice(path, 0, end))
                           IN  IF r.found THEN r ELSE next
                      ELSE IF child.tsr
                      THEN [found |-> TRUE, tsr |-> TRUE, buf |-> buf \o path \o <<"/">>]
                      ELSE IF child.handler # NilHandler
                      THEN [found |-> TRUE, tsr |-> FALSE, buf |-> buf \o path]
                      ELSE next

findFromChild(n, path, buf) == findFromChildAt(n, path, 1, buf)

(***************************************************************************)
(* radix: the Tree (tree.go)                                               *)
(***************************************************************************)
New == [root |-> [newNode(<<>>) EXCEPT !.nType = root], Mutable |-> FALSE]

RECURSIVE nodeAt(_, _)
nodeAt(n, loc) == IF loc = <<>> THEN n ELSE nodeAt(n.children[Head(loc)], Tail(loc))

RECURSIVE setHandlerAt(_, _, _, _)
\* n.handler = handler, or n.wildcard.handler = handler, on the node at loc.
setHandlerAt(n, loc, wild, handler) ==
    IF loc = <<>>
    THEN IF wild THEN [n EXCEPT !.wildcard.handler = handler] ELSE [n EXCEPT !.handler = handler]
    ELSE [n EXCEPT !.children[Head(loc)] = setHandlerAt(@, Tail(loc), wild, handler)]

\* Tree.Add after its checks, on a tree whose Mutable is mutable.
addChecked(t, path, handler, mutable) ==
    LET \* r is what add did to the root.
        added(r) ==
            IF r.err # ""
            THEN IF mutable /\ ~r.ok
                 THEN [t |-> [t EXCEPT !.root = r.n], panic |-> "nil pointer dereference"]
                 ELSE IF mutable /\ ~nodeAt(r.n, r.loc).tsr /\ r.err = errSetHandler
                 THEN [t |-> [t EXCEPT !.root = setHandlerAt(r.n, r.loc, FALSE, handler)],
                       panic |-> ""]
                 ELSE IF mutable /\ ~nodeAt(r.n, r.loc).tsr /\ r.err = errSetWildcardHandler
                 THEN [t |-> [t EXCEPT !.root = setHandlerAt(r.n, r.loc, TRUE, handler)],
                       panic |-> ""]
                 ELSE [t |-> [t EXCEPT !.root = r.n], panic |-> r.err]
            ELSE IF Len(r.n.path) = 0 /\ r.n.children = <<>>
            THEN [t |-> [t EXCEPT !.root = r.n], panic |-> "index out of range"]
            ELSE [t |-> [t EXCEPT !.root = sort(IF Len(r.n.path) = 0
                                                THEN [r.n.children[1] EXCEPT !.nType = root]
                                                ELSE r.n)],
                  panic |-> ""]
        common(i) ==
            added(add(IF i > 0 /\ Len(t.root.path) > i THEN split(t.root, i) ELSE t.root,
                      IF i > 0 THEN From(path, i) ELSE path, handler))
    IN  common(longestCommonPrefix(path, t.root.path))

\* Tree.Add that replaces a handler whatever Mutable is.
TreeAddReplacing(t, path, handler) ==
    IF ~HasPrefix(path, <<"/">>)
    THEN [t |-> t, panic |-> "path must begin with '/'"]
    ELSE IF handler = NilHandler
    THEN [t |-> t, panic |-> "nil handler"]
    ELSE addChecked(t, path, handler, TRUE)

\* Tree.Add: the tree after the call and the panic it ended with ("" for a
\* normal return).
TreeAdd(t, path, handler) ==
    IF ~HasPrefix(path, <<"/">>)
    THEN [t |-> t, panic |-> "path must begin with '/'"]
    ELSE IF handler = NilHandler
    THEN [t |-> t, panic |-> "nil handler"]
    ELSE addChecked(t, path, handler, t.Mutable)

\* Tree.Get that stores no path value in the request.
TreeGetWithoutValues(t, path, hasReq, pv) ==
    IF Len(path) > Len(t.root.path)
    THEN IF Slice(path, 0, Len(t.root.path)) # t.root.path THEN notFound(pv)
         ELSE getFromChild(t.root, From(path, Len(t.root.path)), FALSE, pv)
    ELSE IF path = t.root.path
    THEN IF t.root.tsr THEN [h |-> NilHandler, tsr |-> TRUE, pv |-> pv]
         ELSE IF t.root.handler # NilHandler
         THEN [h |-> t.root.handler, tsr |-> FALSE, pv |-> pv]
         ELSE IF t.root.wildcard.set
         THEN [h |-> t.root.wildcard.handler, tsr |-> FALSE,
               pv |-> SetPathValue(FALSE, pv, t.root.wildcard.paramKey, <<>>)]
         ELSE notFound(pv)
    ELSE notFound(pv)

\* Tree.Get that recommends the trailing slash redirect whatever it found.
TreeGetRecommending(t, path, hasReq, pv) ==
    LET marked(r) == [r EXCEPT !.tsr = TRUE]
    IN  marked(TreeGetWithoutValues(t, path, hasReq, pv))

\* Tree.Get; hasReq is req != nil, pv the path values of req before the call.
TreeGet(t, path, hasReq, pv) ==
    IF Len(path) > Len(t.root.path)
    THEN IF Slice(path, 0, Len(t.root.path)) # t.root.path THEN notFound(pv)
         ELSE getFromChild(t.root, From(path, Len(t.root.path)), hasReq, pv)
    ELSE IF path = t.root.path
    THEN IF t.root.tsr THEN [h |-> NilHandler, tsr |-> TRUE, pv |-> pv]
         ELSE IF t.root.handler # NilHandler
         THEN [h |-> t.root.handler, tsr |-> FALSE, pv |-> pv]
         ELSE IF t.root.wildcard.set
         THEN [h |-> t.root.wildcard.handler, tsr |-> FALSE,
               pv |-> SetPathValue(hasReq, pv, t.root.wildcard.paramKey, <<>>)]
         ELSE notFound(pv)
    ELSE notFound(pv)

\* Tree.FindCaseInsensitivePath: whether the lookup succeeded, and the buffer.
FindCaseInsensitivePath(t, path, fixTrailingSlash, caseCorrected) ==
    LET searched(r) == [ok |-> ~(~r.found \/ (r.tsr /\ ~fixTrailingSlash)), buf |-> r.buf]
    IN  searched(find(t.root, path, caseCorrected))

(***************************************************************************)
(* The dispatcher: Mux.                                                    *)
(*                                                                         *)
(* A *radix.Tree of the trees slice is a record: nil, or a reference to a  *)
(* Tree.  Maps are functions; EmptyMap is the map with no key.             *)
(***************************************************************************)
MethodGet == "GET"

MethodConnect == "CONNECT"

MethodOptions == "OPTIONS"

MethodWild == "*"

StatusMovedPermanently == 301

StatusPermanentRedirect == 308

EmptyMap == [k \in {} |-> 0]

NilTree == [nil |-> TRUE]

TreeRef(t) == [nil |-> FALSE, ref |-> t]

Put(map, k, v) == [x \in DOMAIN map \cup {k} |-> IF x = k THEN v ELSE map[x]]

\* Go's order of strings, for the method names of the model.
MethodOrder ==
    <<"*", "CONNECT", "CUSTOM", "DELETE", "GET", "HEAD", "OPTIONS", "OTHER", "PATCH", "POST", "PURGE",
      "PUT", "TRACE">>

Rank(method) == CHOOSE i \in 1..Len(MethodOrder) : MethodOrder[i] = method

StringLess(a, b) == Rank(a) < Rank(b)

NewMux ==
    [OnError |-> "DefaultErrorHandler", OnMethodNotAllowed |-> "DefaultOnMethodNotAllowed",
     OnNotFound |-> "DefaultOnNotFound", OnPanic |-> "DefaultOnPanic", GlobalOPTIONS |-> "nil",
     mw |-> <<>>, trees |-> [i \in 1..10 |-> NilTree], customMethodsIndex |-> EmptyMap,
     registeredPaths |-> EmptyMap, globalAllowed |-> <<>>, treeMutable |-> FALSE,
     RedirectTrailingSlash |-> TRUE, RedirectFixedPath |-> TRUE]

\* methodIndexOf that reads the index of a method of the router's own one
\* too low.
methodIndexOfOffByOne(m, method) ==
    IF method = "GET" THEN 0
    ELSE IF method = "HEAD" THEN 1
    ELSE IF method = "POST" THEN 2
    ELSE IF method = "PUT" THEN 3
    ELSE IF method = "PATCH" THEN 4
    ELSE IF method = "DELETE" THEN 5
    ELSE IF method = "CONNECT" THEN 6
    ELSE IF method = "OPTIONS" THEN 7
    ELSE IF method = "TRACE" THEN 8
    ELSE IF method = MethodWild THEN 9
    ELSE IF method \in DOMAIN m.customMethodsIndex THEN m.customMethodsIndex[method] - 1
    ELSE -1

methodIndexOf(m, method) ==
    IF method = "GET" THEN 0
    ELSE IF method = "HEAD" THEN 1
    ELSE IF method = "POST" THEN 2
    ELSE IF method = "PUT" THEN 3
    ELSE IF method = "PATCH" THEN 4
    ELSE IF method = "DELETE" THEN 5
    ELSE IF method = "CONNECT" THEN 6
    ELSE IF method = "OPTIONS" THEN 7
    ELSE IF method = "TRACE" THEN 8
    ELSE IF method = MethodWild THEN 9
    ELSE IF method \in DOMAIN m.customMethodsIndex THEN m.customMethodsIndex[method]
    ELSE -1

\* m.trees[i], Go's 0-based index: the bounds check and the element.
inRange(m, i) == 0 <= i /\ i < Len(m.trees)

treeAt(m, i) == m.trees[i + 1]

validatePath(path) == ~(Len(path) = 0 \/ ~HasPrefix(path, <<"/">>))

(***************************************************************************)
(* getOptionalPaths                                                        *)
(***************************************************************************)
Contains(seq, x) == \E i \in 1..Len(seq) : seq[i] = x

\* The offset of the first byte of path at or after offset from that is one
\* of bytes, len(path) when there is none: where a loop that passes over
\* every other byte arrives.
nextOf(path, from, bytes) ==
    LET at == {i \in from..(Len(path) - 1) : path[i + 1] \in bytes}
    IN  IF at = {} THEN Len(path) ELSE CHOOSE i \in at : \A j \in at : i <= j

\* path[lo:hi] is a slice of path; Go panics when it is not.
InBounds(path, lo, hi) == 0 <= lo /\ lo <= hi /\ hi <= Len(path)

\* What getOptionalPaths yields when a slice expression panics.
OutOfRange == <<<<"slice bounds out of range">>>>

RECURSIVE walk(_, _, _), scan(_, _, _, _, _, _, _, _)
\* The inner loop of getOptionalPaths from offset end of path[start:] on,
\* with the loop's local variables.
scan(path, start, end, newPath, hasRegex, questionMarkIndex, brackets, paths) ==
    LET on(e, c) ==
            IF c = "{"
            THEN scan(path, start, e + 1, newPath, hasRegex, questionMarkIndex, brackets + 1, paths)
            ELSE IF c = "}"
            THEN IF brackets > 0
                 THEN scan(path, start, e + 1, newPath, hasRegex, questionMarkIndex, brackets - 1, paths)
                 ELSE IF questionMarkIndex = -1 THEN walk(path, start, paths)
                 ELSE IF ~InBounds(path, questionMarkIndex + 1, start + e + 1) THEN OutOfRange
                 ELSE walk(Slice(path, 0, questionMarkIndex) \o From(path, questionMarkIndex + 1),
                           start + e,
                           Append(paths, newPath \o Slice(path, questionMarkIndex + 1, start + e + 1)))
            ELSE IF c = ":"
            THEN scan(path, start, e + 1, newPath, TRUE, questionMarkIndex, brackets, paths)
            ELSE IF ~hasRegex
            THEN IF ~InBounds(path, 0, start - 2) THEN OutOfRange
                 ELSE scan(path, start, e + 1, newPath \o Slice(path, 0, start + e), hasRegex,
                           start + e, brackets,
                           IF Len(Slice(path, 0, start - 2)) = 0 THEN Append(paths, <<"/">>)
                           ELSE IF ~Contains(paths, Slice(path, 0, start - 2))
                           THEN Append(paths, Slice(path, 0, start - 2))
                           ELSE paths)
            ELSE scan(path, start, e + 1, newPath, hasRegex, questionMarkIndex, brackets, paths)
        \* at is the offset in path of the next byte the switch has a case for.
        to(at) == IF at >= Len(path) THEN walk(path, start, paths)
                  ELSE on(at - start, path[at + 1])
    IN  to(nextOf(path, start + end, {"{", "}", ":", "?"}))

\* The outer loop (label walk) with start at the given offset.
walk(path, start, paths) ==
    LET to(at) == IF at >= Len(path) THEN paths
                  ELSE scan(path, at + 1, 0, <<>>, FALSE, -1, 0, paths)
    IN  to(nextOf(path, start, {"{"}))

getOptionalPaths(path) == walk(path, 0, <<>>)

(***************************************************************************)
(* Mux.allowed.  A Go map is ranged over in no fixed order; the model      *)
(* ranges over the methods from the greatest to the least, so that the     *)
(* sort has work to do.  The result carries panic = TRUE when the call     *)
(* ends in a run-time panic (an index out of range, a nil tree).           *)
(***************************************************************************)
RECURSIVE keysDescending(_)
keysDescending(S) ==
    IF S = {} THEN <<>>
    ELSE LET x == CHOOSE k \in S : \A k2 \in S : k2 = k \/ StringLess(k2, k)
         IN  <<x>> \o keysDescending(S \ {x})

Swap(a, i, j) == [a EXCEPT ![i] = a[j], ![j] = a[i]]

RECURSIVE sortInner(_, _), sortOuter(_, _)
\* for j := i; j > 0 && allowed[j] < allowed[j-1]; j-- { swap }, 0-based j.
sortInner(a, j) ==
    IF j > 0 /\ StringLess(a[j + 1], a[j]) THEN sortInner(Swap(a, j + 1, j), j - 1) ELSE a

\* for i, l := 1, len(allowed); i < l; i++
sortOuter(a, i) == IF i < Len(a) THEN sortOuter(sortInner(a, i), i + 1) ELSE a

RECURSIVE probe(_, _, _, _, _)
\* The loop over the methods of a specific path.
probe(m, path, reqMethod, methods, acc) ==
    IF methods = <<>> THEN [allow |-> acc, panic |-> FALSE]
    ELSE LET method == Head(methods)
             i == methodIndexOf(m, method)
         IN  IF method = reqMethod \/ method = MethodOptions
             THEN probe(m, path, reqMethod, Tail(methods), acc)
             ELSE IF ~inRange(m, i) \/ treeAt(m, i).nil THEN [allow |-> acc, panic |-> TRUE]
             ELSE probe(m, path, reqMethod, Tail(methods),
                        IF TreeGet(treeAt(m, i).ref, path, FALSE, {}).h # NilHandler
                        THEN Append(acc, method) ELSE acc)

\* allowed without the sort of its result.
allowedUnsorted(m, path, reqMethod) ==
    LET \* found is what the loop over the methods collected.
        listed(found) ==
            IF found.panic THEN found
            ELSE IF Len(found.allow) > 0
            THEN [allow |-> Append(found.allow, MethodOptions), panic |-> FALSE]
            ELSE [allow |-> <<>>, panic |-> FALSE]
        over(methods) ==
            listed(IF path = <<"*">> \/ path = <<"/", "*">>
                   THEN [allow |-> SelectSeq(methods, LAMBDA x : x # MethodOptions),
                         panic |-> FALSE]
                   ELSE probe(m, path, reqMethod, methods, <<>>))
    IN  IF (path = <<"*">> \/ path = <<"/", "*">>) /\ reqMethod # ""
        THEN [allow |-> m.globalAllowed, panic |-> FALSE]
        ELSE over(keysDescending(DOMAIN m.registeredPaths))

allowed(m, path, reqMethod) ==
    LET \* found is what the loop over the methods collected.
        listed(found) ==
            IF found.panic THEN found
            ELSE IF Len(found.allow) > 0
            THEN [allow |-> sortOuter(Append(found.allow, MethodOptions), 1), panic |-> FALSE]
            ELSE [allow |-> <<>>, panic |-> FALSE]
        over(methods) ==
            listed(IF path = <<"*">> \/ path = <<"/", "*">>
                   THEN [allow |-> SelectSeq(methods, LAMBDA x : x # MethodOptions),
                         panic |-> FALSE]
                   ELSE probe(m, path, reqMethod, methods, <<>>))
    IN  IF (path = <<"*">> \/ path = <<"/", "*">>) /\ reqMethod # ""
        THEN [allow |-> m.globalAllowed, panic |-> FALSE]
        ELSE over(keysDescending(DOMAIN m.registeredPaths))

(***************************************************************************)
(* Mux.Handle and Mux.Merge.  A registered function is a handler record    *)
(* without middleware and error sink; the result is the Mux after the call *)
(* and the panic the call ended with ("" for a normal return).             *)
(***************************************************************************)
RECURSIVE addAll(_, _, _)
\* for _, p := range optionalPaths { tree.Add(p, stdHandler) }
addAll(t, paths, handler) ==
    IF paths = <<>> THEN [t |-> t, panic |-> ""]
    ELSE LET added(r) == IF r.panic # "" THEN r ELSE addAll(r.t, Tail(paths), handler)
         IN  added(TreeAdd(t, Head(paths), handler))

\* Handle after its checks: from the append to registeredPaths to the end.
register(m, method, path, handler) ==
    LET fresh == TreeRef([New EXCEPT !.Mutable = m.treeMutable])
        \* r is what the calls of tree.Add ended with.
        routed(m3, methodIndex, r) ==
            [m |-> [m3 EXCEPT !.trees[methodIndex + 1] = TreeRef(r.t)], panic |-> r.panic]
        withTree(m3, methodIndex, optionalPaths) ==
            routed(m3, methodIndex,
                   addAll(treeAt(m3, methodIndex).ref,
                          IF Len(optionalPaths) = 0 THEN <<path>> ELSE optionalPaths,
                          [handler EXCEPT !.mw = m.mw, !.onerr = m.OnError]))
        \* m2a is the Mux with the new tree of the method.
        created(m2a) == [m2a EXCEPT !.globalAllowed = allowed(m2a, <<"*">>, "").allow]
        indexed(m2, methodIndex) ==
            IF ~inRange(m2, methodIndex) THEN [m |-> m2, panic |-> "index out of range"]
            ELSE withTree(IF treeAt(m2, methodIndex).nil
                          THEN created([m2 EXCEPT !.trees[methodIndex + 1] = fresh])
                          ELSE m2,
                          methodIndex, getOptionalPaths(path))
        custom(m2, known) == indexed(m2, IF known = -1 THEN Len(m2.trees) - 1 ELSE known)
        looked(m1, known) ==
            custom(IF known = -1
                   THEN [m1 EXCEPT !.trees = Append(@, fresh),
                                   !.customMethodsIndex = Put(@, method, Len(m1.trees))]
                   ELSE m1,
                   known)
        appended(m1) == looked(m1, methodIndexOf(m1, method))
    IN  appended([m EXCEPT !.registeredPaths =
                     Put(@, method, Append(IF method \in DOMAIN @ THEN @[method] ELSE <<>>, path))])

\* Handle without the check of the handler.
HandleUnchecked(m, method, path, handler) ==
    IF method = "" THEN [m |-> m, panic |-> "method must not be empty"]
    ELSE IF ~validatePath(path) THEN [m |-> m, panic |-> "path must begin with '/'"]
    ELSE register(m, method, path, handler)

Handle(m, method, path, handler) ==
    IF method = "" THEN [m |-> m, panic |-> "method must not be empty"]
    ELSE IF handler = NilHandler THEN [m |-> m, panic |-> "handler must not be nil"]
    ELSE IF ~validatePath(path) THEN [m |-> m, panic |-> "path must begin with '/'"]
    ELSE register(m, method, path, handler)

\* Merge of a handler that is not a Mux (the default case of the type switch).
MountHandler(id, noStar) == [kind |-> "mount", id |-> id, noStar |-> noStar, mw |-> <<>>, onerr |-> "nil"]

Merge(m, prefix, id) ==
    IF ~HasSuffix(prefix, <<"*">>) THEN [m |-> m, panic |-> "non-Mux merges must end with *"]
    ELSE Handle(m, MethodWild, prefix, MountHandler(id, Slice(prefix, 0, Len(prefix) - 1)))

\* The Go type of a handler found in a tree.  Handle converts the function
\* it adds to http.HandlerFunc; a value of type HandlerFunc is never added.
typeOf(h) == "http.HandlerFunc"

\* The routes of h as `range h.registeredPaths` yields them when it yields
\* the methods in the order given.
RECURSIVE registered(_, _)
registered(h, methods) ==
    IF methods = <<>> THEN <<>>
    ELSE [i \in 1..Len(h.registeredPaths[Head(methods)]) |->
             <<Head(methods), h.registeredPaths[Head(methods)][i]>>]
         \o registered(h, Tail(methods))

\* The type switch on a handler found in h: a HandlerFunc goes to
\* m2.Handle(method, fullPath, h), any other handler to m2.Merge(fullPath, h),
\* which is Handle under MethodWild after Merge's check of the suffix.
mergeFound(m2, method, fullPath, h, asFunc) ==
    IF ~asFunc /\ ~HasSuffix(fullPath, <<"*">>)
    THEN [m |-> m2, panic |-> "non-Mux merges must end with *"]
    ELSE Handle(m2, IF asFunc THEN method ELSE MethodWild, fullPath,
                IF asFunc THEN h ELSE MountHandler(h.id, Slice(fullPath, 0, Len(fullPath) - 1)))

\* The loops of Merge over the routes of h left, m2 being the copy of m.
RECURSIVE mergeEach(_, _, _, _)
mergeEach(m2, prefix, h, left) ==
    LET \* r is what the registration of the route ended with.
        next(r) == IF r.panic # "" THEN r ELSE mergeEach(r.m, prefix, h, Tail(left))
        found(method, fullPath, got) ==
            IF got.h = NilHandler THEN next([m |-> m2, panic |-> ""])
            ELSE next(mergeFound(m2, method, fullPath, got.h, typeOf(got.h) = "HandlerFunc"))
        each(method, path) ==
            found(method,
                  IF prefix # <<>> /\ path = <<"/">> THEN prefix ELSE prefix \o path,
                  TreeGet(treeAt(h, methodIndexOf(h, method)).ref, path, TRUE, {}))
    IN  IF left = <<>> THEN [m |-> m2, panic |-> ""]
        ELSE each(Head(left)[1], Head(left)[2])

\* Merge of a Mux h.  The registrations are made on m2, a copy of m's fields:
\* the maps, the trees and the array of the ten standard trees are shared
\* with m, while mw, OnError and globalAllowed of m stay as they were.
MergeMux(m, prefix, h, methods) ==
    LET shared(r) ==
            [m |-> [r.m EXCEPT !.mw = m.mw, !.OnError = m.OnError,
                               !.globalAllowed = m.globalAllowed,
                               !.trees = SubSeq(@, 1, Len(m.trees))],
             panic |-> r.panic]
    IN  shared(mergeEach([m EXCEPT !.mw = m.mw \o h.mw, !.OnError = h.OnError],
                         prefix, h, registered(h, methods)))

(***************************************************************************)
(* The response writer.  WriteHeader sends the status line together with   *)
(* the headers set so far; a header set afterwards stays in the live map   *)
(* and is not part of the response.                                        *)
(***************************************************************************)
NewResponse == [status |-> 0, sent |-> EmptyMap, header |-> EmptyMap]

WriteHeader(w, code) == IF w.status # 0 THEN w ELSE [w EXCEPT !.status = code, !.sent = w.header]

SetHeader(w, key, value) == [w EXCEPT !.header = Put(@, key, value)]

\* One entry of the log of what ran while a request was served.
Call(fn, id, arg) == [fn |-> fn, id |-> id, arg |-> arg]

\* The state of one ServeHTTP call: the writer, the log, the request's path
\* values and the value of a panic under way ("" when there is none).
NewServe == [w |-> NewResponse, calls |-> <<>>, pv |-> {}, panic |-> ""]

Log(st, fn, id, arg) == [st EXCEPT !.calls = Append(@, Call(fn, id, arg))]

DefaultErrorHandler(st) == [st EXCEPT !.w = WriteHeader(@, 500)]

DefaultOnMethodNotAllowed(st) == [st EXCEPT !.w = WriteHeader(@, 405)]

DefaultOnNotFound(st) == [st EXCEPT !.w = WriteHeader(@, 404)]

DefaultOnPanic(st) == [st EXCEPT !.w = WriteHeader(@, 500)]

\* The errors a route handler returns.
Errors == {"err", "err2"}

\* onerr(w, r, err): the log keeps the function called and the error.  The
\* call of a nil function panics.
OnError(name, st, err) ==
    IF name = "nil" THEN [st EXCEPT !.panic = "nil pointer dereference"]
    ELSE IF name = "DefaultErrorHandler" THEN DefaultErrorHandler(Log(st, "OnError", 0, <<name, err>>))
    ELSE Log(st, "OnError", 0, <<name, err>>)

\* The fallbacks: the log keeps the function called.
OnNotFound(m, st) ==
    IF m.OnNotFound = "DefaultOnNotFound"
    THEN DefaultOnNotFound(Log(st, "OnNotFound", 0, <<m.OnNotFound>>))
    ELSE Log(st, "OnNotFound", 0, <<m.OnNotFound>>)

OnMethodNotAllowed(m, st) ==
    IF m.OnMethodNotAllowed = "DefaultOnMethodNotAllowed"
    THEN DefaultOnMethodNotAllowed(Log(st, "OnMethodNotAllowed", 0, <<m.OnMethodNotAllowed>>))
    ELSE Log(st, "OnMethodNotAllowed", 0, <<m.OnMethodNotAllowed>>)

\* stdHandler with a mounted handler called on the request as it came.
stdHandlerWithoutStrip(m, st, r, h, does) ==
    IF h.kind = "mount"
    THEN LET p == TrimPrefix(r.Path, h.noStar)
             rp == TrimPrefix(r.RawPath, h.noStar)
             ran == Log(st, "mount", h.id, h.mw)
         IN  IF Len(p) < Len(r.Path) /\ (r.RawPath = <<>> \/ Len(rp) < Len(r.RawPath))
             THEN IF does = "panic"
                  THEN [Log(ran, "mounted", h.id, r.Path) EXCEPT !.panic = "handler panic"]
                  ELSE Log(ran, "mounted", h.id, r.Path)
             ELSE OnNotFound(m, ran)
    ELSE LET ran == Log(st, "route", h.id, h.mw)
         IN  IF does = "panic" THEN [ran EXCEPT !.panic = "handler panic"]
             ELSE IF does \in Errors THEN OnError(h.onerr, ran, does)
             ELSE ran

\* stdHandler running the middleware the router has when the request comes.
stdHandlerLiveChain(m, st, r, h, does) ==
    IF h.kind = "mount"
    THEN LET p == TrimPrefix(r.Path, h.noStar)
             rp == TrimPrefix(r.RawPath, h.noStar)
             ran == Log(st, "mount", h.id, m.mw)
         IN  IF Len(p) < Len(r.Path) /\ (r.RawPath = <<>> \/ Len(rp) < Len(r.RawPath))
             THEN IF does = "panic"
                  THEN [Log(ran, "mounted", h.id, p) EXCEPT !.panic = "handler panic"]
                  ELSE Log(ran, "mounted", h.id, p)
             ELSE OnNotFound(m, ran)
    ELSE LET ran == Log(st, "route", h.id, m.mw)
         IN  IF does = "panic" THEN [ran EXCEPT !.panic = "handler panic"]
             ELSE IF does \in Errors THEN OnError(h.onerr, ran, does)
             ELSE ran

\* stdHandler reporting an error to the OnError the router has when the
\* request comes.
stdHandlerLiveSink(m, st, r, h, does) ==
    IF h.kind = "mount"
    THEN LET p == TrimPrefix(r.Path, h.noStar)
             rp == TrimPrefix(r.RawPath, h.noStar)
             ran == Log(st, "mount", h.id, h.mw)
         IN  IF Len(p) < Len(r.Path) /\ (r.RawPath = <<>> \/ Len(rp) < Len(r.RawPath))
             THEN IF does = "panic"
                  THEN [Log(ran, "mounted", h.id, p) EXCEPT !.panic = "handler panic"]
                  ELSE Log(ran, "mounted", h.id, p)
             ELSE OnNotFound(m, ran)
    ELSE LET ran == Log(st, "route", h.id, h.mw)
         IN  IF does = "panic" THEN [ran EXCEPT !.panic = "handler panic"]
             ELSE IF does \in Errors THEN OnError(m.OnError, ran, does)
             ELSE ran

\* The function registered by Handle, or by Merge for a mounted handler.
\* does is what the user's code does with the request: "ok", an error,
\* "panic".
stdHandler(m, st, r, h, does) ==
    IF h.kind = "mount"
    THEN LET p == TrimPrefix(r.Path, h.noStar)
             rp == TrimPrefix(r.RawPath, h.noStar)
             ran == Log(st, "mount", h.id, h.mw)
         IN  IF Len(p) < Len(r.Path) /\ (r.RawPath = <<>> \/ Len(rp) < Len(r.RawPath))
             THEN IF does = "panic"
                  THEN [Log(ran, "mounted", h.id, p) EXCEPT !.panic = "handler panic"]
                  ELSE Log(ran, "mounted", h.id, p)
             ELSE OnNotFound(m, ran)
    ELSE LET ran == Log(st, "route", h.id, h.mw)
         IN  IF does = "panic" THEN [ran EXCEPT !.panic = "handler panic"]
             ELSE IF does \in Errors THEN OnError(h.onerr, ran, does)
             ELSE ran

\* The status of a redirect that keeps the method of every request.
codeKeepingMethod(method) == StatusPermanentRedirect

\* The status of a redirect: Moved Permanently for GET, Permanent Redirect
\* for a request of another method.
redirectCode(method) == IF method # MethodGet THEN StatusPermanentRedirect ELSE StatusMovedPermanently

tryRedirect(m, st, r, t, tsr, method, path) ==
    LET query == IF Len(r.RawQuery) > 0 THEN <<"?">> \o r.RawQuery ELSE <<>>
        slashed == IF Len(path) > 1 /\ path[Len(path)] = "/"
                   THEN Slice(path, 0, Len(path) - 1)
                   ELSE path \o <<"/">>
        \* sentSt is the call after w.WriteHeader(code).
        located(sentSt, uri) ==
            IF Len(uri) = 0 THEN [ok |-> TRUE, st |-> [sentSt EXCEPT !.panic = "index out of range"]]
            ELSE [ok |-> TRUE, st |-> [sentSt EXCEPT !.w = SetHeader(@, "Location", uri)]]
        redirect(code, uri, how) ==
            located([Log(st, "redirect", code, how) EXCEPT !.w = WriteHeader(@, code)], uri)
        fix(code, found) ==
            IF m.RedirectFixedPath /\ found.ok THEN redirect(code, found.buf \o query, <<"fixed">>)
            ELSE [ok |-> FALSE, st |-> st]
        try(code) ==
            IF tsr /\ m.RedirectTrailingSlash THEN redirect(code, slashed \o query, <<"tsr">>)
            ELSE fix(code, FindCaseInsensitivePath(t, TrimSuffix(r.Path, <<".">>),
                                                   m.RedirectTrailingSlash, <<>>))
    IN  try(redirectCode(method))

\* serveFrom with a redirect tried for every request without a match.
serveFromAlwaysRedirecting(m, st, r, i, does) ==
    LET redirected(red) == [done |-> red.ok, st |-> red.st]
        \* got is what the tree t answered.
        matched(t, got) ==
            IF got.h # NilHandler
            THEN [done |-> TRUE, st |-> stdHandler(m, [st EXCEPT !.pv = got.pv], r, got.h, does)]
            ELSE redirected(tryRedirect(m, [st EXCEPT !.pv = got.pv], r, t, got.tsr,
                                        r.Method, r.Path))
    IN  IF ~inRange(m, i) THEN [done |-> TRUE, st |-> [st EXCEPT !.panic = "index out of range"]]
        ELSE IF treeAt(m, i).nil THEN [done |-> FALSE, st |-> st]
        ELSE matched(treeAt(m, i).ref, TreeGet(treeAt(m, i).ref, r.Path, TRUE, st.pv))

\* One of the two look-ups of ServeHTTP, in the tree of the request's method
\* or of the wildcard method: done = TRUE when ServeHTTP returns from it.
serveFrom(m, st, r, i, does) ==
    LET redirected(red) == [done |-> red.ok, st |-> red.st]
        \* got is what the tree t answered.
        matched(t, got) ==
            IF got.h # NilHandler
            THEN [done |-> TRUE, st |-> stdHandler(m, [st EXCEPT !.pv = got.pv], r, got.h, does)]
            ELSE IF r.Method # MethodConnect /\ r.Path # <<"/">>
            THEN redirected(tryRedirect(m, [st EXCEPT !.pv = got.pv], r, t, got.tsr,
                                        r.Method, r.Path))
            ELSE [done |-> FALSE, st |-> [st EXCEPT !.pv = got.pv]]
    IN  IF ~inRange(m, i) THEN [done |-> TRUE, st |-> [st EXCEPT !.panic = "index out of range"]]
        ELSE IF treeAt(m, i).nil THEN [done |-> FALSE, st |-> st]
        ELSE matched(treeAt(m, i).ref, TreeGet(treeAt(m, i).ref, r.Path, TRUE, st.pv))

\* fallback without the return after the method-not-allowed handler.
fallbackFallingThrough(m, st, r) ==
    LET answer(allow) ==
            IF m.OnMethodNotAllowed # "nil" /\ ~allow.panic /\ Len(allow.allow) > 0
            THEN OnNotFound(m, OnMethodNotAllowed(m,
                     [st EXCEPT !.w = SetHeader(@, "Allow", allow.allow)]))
            ELSE OnNotFound(m, st)
    IN  answer(allowed(m, r.Path, r.Method))

\* The end of ServeHTTP, reached when neither look-up answered the request.
fallback(m, st, r) ==
    LET \* allow is what m.allowed answered, kind the branch that asked.
        answer(kind, allow) ==
            IF kind = "none" THEN OnNotFound(m, st)
            ELSE IF allow.panic THEN [st EXCEPT !.panic = "nil tree"]
            ELSE IF Len(allow.allow) = 0 THEN OnNotFound(m, st)
            ELSE IF kind = "options"
            THEN Log([st EXCEPT !.w = SetHeader(@, "Allow", allow.allow)],
                     "GlobalOPTIONS", 0, <<m.GlobalOPTIONS>>)
            ELSE OnMethodNotAllowed(m, [st EXCEPT !.w = SetHeader(@, "Allow", allow.allow)])
    IN  IF r.Method = MethodOptions /\ m.GlobalOPTIONS # "nil"
        THEN answer("options", allowed(m, r.Path, MethodOptions))
        ELSE IF m.OnMethodNotAllowed # "nil"
        THEN answer("method", allowed(m, r.Path, r.Method))
        ELSE OnNotFound(m, st)

\* ServeHTTP without the deferred recover: a panic always propagates.
ServeHTTPWithoutRecover(m, r, does) ==
    LET answered(st, recovered, propagated) ==
            [served |-> TRUE, r |-> r, does |-> does, calls |-> recovered.calls,
             pv |-> recovered.pv, panic |-> st.panic, propagated |-> propagated,
             w |-> IF propagated THEN recovered.w ELSE WriteHeader(recovered.w, 200)]
        ended(st) ==
            answered(st, st, st.panic # "")
        tried(second) == ended(IF second.done THEN second.st ELSE fallback(m, second.st, r))
        looked(first) ==
            tried(IF first.done THEN first
                  ELSE serveFrom(m, first.st, r, methodIndexOf(m, MethodWild), does))
        start(own) ==
            looked(IF own > -1 THEN serveFrom(m, NewServe, r, own, does)
                   ELSE [done |-> FALSE, st |-> NewServe])
    IN  start(methodIndexOf(m, r.Method))

\* ServeHTTP without the look-up in the tree of the wildcard method.
ServeHTTPWithoutWild(m, r, does) ==
    LET answered(st, recovered, propagated) ==
            [served |-> TRUE, r |-> r, does |-> does, calls |-> recovered.calls,
             pv |-> recovered.pv, panic |-> st.panic, propagated |-> propagated,
             w |-> IF propagated THEN recovered.w ELSE WriteHeader(recovered.w, 200)]
        \* The deferred recover, st being the call at its end.
        ended(st) ==
            answered(st,
                     IF st.panic # "" /\ m.OnPanic # "nil"
                     THEN IF m.OnPanic = "DefaultOnPanic"
                          THEN DefaultOnPanic(Log(st, "OnPanic", 0, <<st.panic>>))
                          ELSE Log(st, "OnPanic", 0, <<st.panic>>)
                     ELSE st,
                     st.panic # "" /\ m.OnPanic = "nil")
        tried(second) == ended(IF second.done THEN second.st ELSE fallback(m, second.st, r))
        looked(first) ==
            tried(first)
        start(own) ==
            looked(IF own > -1 THEN serveFrom(m, NewServe, r, own, does)
                   ELSE [done |-> FALSE, st |-> NewServe])
    IN  start(methodIndexOf(m, r.Method))

\* ServeHTTP with the look-up in the tree of the wildcard method made first.
ServeHTTPWildFirst(m, r, does) ==
    LET answered(st, recovered, propagated) ==
            [served |-> TRUE, r |-> r, does |-> does, calls |-> recovered.calls,
             pv |-> recovered.pv, panic |-> st.panic, propagated |-> propagated,
             w |-> IF propagated THEN recovered.w ELSE WriteHeader(recovered.w, 200)]
        \* The deferred recover, st being the call at its end.
        ended(st) ==
            answered(st,
                     IF st.panic # "" /\ m.OnPanic # "nil"
                     THEN IF m.OnPanic = "DefaultOnPanic"
                          THEN DefaultOnPanic(Log(st, "OnPanic", 0, <<st.panic>>))
                          ELSE Log(st, "OnPanic", 0, <<st.panic>>)
                     ELSE st,
                     st.panic # "" /\ m.OnPanic = "nil")
        tried(second) == ended(IF second.done THEN second.st ELSE fallback(m, second.st, r))
        looked(own, first) ==
            tried(IF first.done \/ own = -1 THEN first
                  ELSE serveFrom(m, first.st, r, own, does))
        start(own) ==
            looked(own, serveFrom(m, NewServe, r, methodIndexOf(m, MethodWild), does))
    IN  start(methodIndexOf(m, r.Method))

\* The result adds propagated: TRUE when the panic leaves ServeHTTP.  A
\* response without a status gets 200 and the live headers when ServeHTTP
\* returns normally.
ServeHTTP(m, r, does) ==
    LET answered(st, recovered, propagated) ==
            [served |-> TRUE, r |-> r, does |-> does, calls |-> recovered.calls,
             pv |-> recovered.pv, panic |-> st.panic, propagated |-> propagated,
             w |-> IF propagated THEN recovered.w ELSE WriteHeader(recovered.w, 200)]
        \* The deferred recover, st being the call at its end.
        ended(st) ==
            answered(st,
                     IF st.panic # "" /\ m.OnPanic # "nil"
                     THEN IF m.OnPanic = "DefaultOnPanic"
                          THEN DefaultOnPanic(Log(st, "OnPanic", 0, <<st.panic>>))
                          ELSE Log(st, "OnPanic", 0, <<st.panic>>)
                     ELSE st,
                     st.panic # "" /\ m.OnPanic = "nil")
        tried(second) == ended(IF second.done THEN second.st ELSE fallback(m, second.st, r))
        looked(first) ==
            tried(IF first.done THEN first
                  ELSE serveFrom(m, first.st, r, methodIndexOf(m, MethodWild), does))
        start(own) ==
            looked(IF own > -1 THEN serveFrom(m, NewServe, r, own, does)
                   ELSE [done |-> FALSE, st |-> NewServe])
    IN  start(methodIndexOf(m, r.Method))

(***************************************************************************)
(* Bounds and inputs                                                       *)
(***************************************************************************)
\* Registrations (Handle and Merge calls that pass validation) per Mux.
MaxRoutes == 2

\* Add calls per Tree.
MaxAdds == 3

pRoot == <<"/">>
pA == <<"/", "a">>
pASlash == <<"/", "a", "/">>
pAB == <<"/", "a", "/", "b">>
pAParam == <<"/", "a", "/", "{", "x", "}">>
pSWild == <<"/", "s", "/", "{", "f", ":", "*", "}">>
pMount == <<"/", "m", "/", "*">>

Patterns == {pRoot, pA, pASlash, pAB, pAParam, pSWild}

\* Patterns that validation rejects: the empty one and one without '/'.
BadPatterns == {<<>>, <<"a">>}

\* The routes that Handle is called with: every pattern under GET, some of
\* them under another method or under the wildcard method.
RouteInputs ==
    ({"GET"} \X Patterns) \cup ({"POST"} \X {pA, pASlash, pAB})
        \cup ({"OPTIONS"} \X {pRoot, pA}) \cup ({MethodWild} \X {pA, pAParam, pSWild})

\* Calls of Handle with an argument that validation rejects, or with none.
CheckedInputs == {"", "GET"} \X ({pA} \cup BadPatterns) \X BOOLEAN

ReqMethods == {"GET", "POST", "CONNECT", "OPTIONS"}

ReqPaths ==
    {pRoot, pA, pASlash, pAB, <<"/", "A">>, <<"/", "A", "/", "B", "/">>,
     <<"/", "s">>, <<"/", "s", "/", "c", "/", "d">>, pMount, <<"/", "z">>}

\* r.URL.RawPath is set only when the path arrived in an encoding other
\* than the default one: here "/%6d/*" for "/m/*".
RawPaths(path) == IF path = pMount THEN {<<>>, <<"/", "%", "6", "d", "/", "*">>} ELSE {<<>>}

\* What the user's code does with a request, and the request's raw query.
Behaviours == {<<"ok", <<>>>>, <<"ok", <<"q", "=", "1">>>>, <<"err", <<>>>>, <<"panic", <<>>>>}

Request(method, path, rawPath, query) ==
    [Method |-> method, Path |-> path, RawPath |-> rawPath, RawQuery |-> query]

\* The fields of a Mux that its owner sets before registering routes.
Configs ==
    {[NewMux EXCEPT !.RedirectTrailingSlash = c[1], !.RedirectFixedPath = c[2],
                    !.OnMethodNotAllowed = c[3][1], !.GlobalOPTIONS = c[3][2]] :
        c \in BOOLEAN \X BOOLEAN
              \X {<<"DefaultOnMethodNotAllowed", "nil">>, <<"nil", "nil">>,
                  <<"DefaultOnMethodNotAllowed", "user">>}}

(***************************************************************************)
(* The state machines.  mux is the router, resp the outcome of the request *)
(* it served, last the registration call made last; routes, nreg and dirty *)
(* record the history: the concrete routes registered without a panic, the *)
(* number of registrations, whether one of them panicked after it had      *)
(* changed the router.  tree and tres are a radix tree used on its own and *)
(* the outcome of the last call on it, tlog and nadd its history.          *)
(***************************************************************************)
VARIABLES mux, resp, last, routes, nreg, dirty, tree, tres, tlog, nadd, optional, sub, subRoutes, chain,
          race

vars == <<mux, resp, last, routes, nreg, dirty, tree, tres, tlog, nadd, optional, sub, subRoutes, chain, race>>

NoResp ==
    [served |-> FALSE, r |-> Request("", <<>>, <<>>, <<>>), does |-> "ok", calls |-> <<>>, pv |-> {},
     panic |-> "", propagated |-> FALSE, w |-> NewResponse]

\* No call of getOptionalPaths yet: the arguments of Handle's pattern as its
\* segments, the pattern, and the patterns returned.
NoOptional == [segs |-> <<>>, path |-> <<>>, paths |-> <<>>, done |-> FALSE]

NoCall ==
    [op |-> "none", method |-> "", path |-> <<>>, nilHandler |-> FALSE, panic |-> "", changed |-> FALSE]

\* No Add and no Get under way on the tree: add and get are the positions of
\* the two calls, written and words the words of the handler slot (an
\* interface value: its type word and its data word) that the Add has
\* written and the Get has read, got what the Get returned.
NoRace ==
    [add |-> "idle", path |-> <<>>, loc |-> <<>>, wild |-> FALSE, handler |-> NilHandler,
     written |-> {}, get |-> "idle", gpath |-> <<>>, words |-> EmptyMap, got |-> NilHandler]

NoTres ==
    [op |-> "none", path |-> <<>>, id |-> 0, dup |-> FALSE, panic |-> "", h |-> NilHandler,
     tsr |-> FALSE, pv |-> {}, ok |-> FALSE, buf |-> <<>>]

Init ==
    /\ mux = NewMux
    /\ resp = NoResp
    /\ last = NoCall
    /\ routes = {}
    /\ nreg = 0
    /\ dirty = FALSE
    /\ tree = New
    /\ tres = NoTres
    /\ tlog = EmptyMap
    /\ nadd = 0
    /\ optional = NoOptional
    /\ sub = NewMux
    /\ subRoutes = {}
    /\ chain = EmptyMap
    /\ race = NoRace

Route(method, pattern, id) == [method |-> method, pattern |-> pattern, id |-> id]

\* A registration call and its record in the history; chain keeps, per id,
\* the middleware attached to the router when the call was made.
Registered(op, method, path, nilHandler, res, concrete) ==
    /\ mux' = res.m
    /\ last' = [op |-> op, method |-> method, path |-> path, nilHandler |-> nilHandler,
                panic |-> res.panic, changed |-> res.m # mux]
    /\ routes' = IF res.panic = "" THEN routes \cup {Route(method, p, nreg + 1) : p \in concrete} ELSE routes
    /\ nreg' = IF res.m # mux THEN nreg + 1 ELSE nreg
    /\ dirty' = (dirty \/ (res.panic # "" /\ res.m # mux))
    /\ chain' = IF res.panic = "" THEN Put(chain, nreg + 1, mux.mw) ELSE chain
    /\ UNCHANGED <<resp, tree, tres, tlog, nadd, optional, sub, subRoutes, race>>

Range(seq) == {seq[i] : i \in 1..Len(seq)}

\* The owner of the router sets its public fields before anything else.
DoConfigure ==
    /\ last.op = "none" /\ tres.op = "none" /\ ~resp.served
    /\ mux' \in Configs
    /\ last' = [NoCall EXCEPT !.op = "Configure"]
    /\ UNCHANGED <<resp, routes, nreg, dirty, tree, tres, tlog, nadd, optional, sub, subRoutes, chain, race>>

\* The program goes on after a registration unless the call panicked and
\* left the router as it was.
Running == last.op # "none" /\ ~resp.served /\ (last.panic = "" \/ last.changed)

DoHandle ==
    /\ Running
    /\ nreg < MaxRoutes
    /\ \E in \in {<<i[1], i[2], FALSE>> : i \in RouteInputs} \cup CheckedInputs :
         LET method == in[1]
             path == in[2]
             handler == IF in[3] THEN NilHandler ELSE UserHandler(nreg + 1)
             opt == getOptionalPaths(path)
         IN  Registered("Handle", method, path, in[3], Handle(mux, method, path, handler),
                        IF Len(opt) = 0 THEN {path} ELSE Range(opt))

DoMerge ==
    /\ Running
    /\ nreg < MaxRoutes
    /\ \E prefix \in {pMount, <<"/", "m">>} :
         Registered("Merge", MethodWild, prefix, FALSE, Merge(mux, prefix, nreg + 1), {prefix})

DoServeHTTP ==
    /\ Running
    /\ \E method \in ReqMethods, path \in ReqPaths, b \in Behaviours :
         \E rawPath \in RawPaths(path) :
            resp' = ServeHTTP(mux, Request(method, path, rawPath, b[2]), b[1])
    /\ UNCHANGED <<mux, last, routes, nreg, dirty, tree, tres, tlog, nadd, optional, sub, subRoutes, chain, race>>

(***************************************************************************)
(* A radix tree used on its own, immutable or mutable, by a program that   *)
(* does not use the router.  tlog maps each pattern to the handler of the  *)
(* last Add of it that returned normally, and counts the Adds of it.       *)
(***************************************************************************)
TreePatterns == {pRoot, pA, pASlash, pAParam, <<"/", "s">>, pSWild}

TreePaths ==
    TreePatterns \cup {pAB, <<"/", "s", "/">>, <<"/", "s", "/", "c", "/", "d">>, <<"/", "A">>, <<"/", "z">>}

TreeRunning == tres.op \in {"New", "Add"}

\* The Add calls made with a pattern since it was first registered.
Adds(path) == IF path \in DOMAIN tlog THEN tlog[path].adds ELSE 0

\* radix.New(), and the caller's choice of Mutable.
DoNew ==
    /\ tres.op = "none" /\ last.op = "none" /\ ~resp.served
    /\ \E b \in BOOLEAN : tree' = [New EXCEPT !.Mutable = b]
    /\ tres' = [NoTres EXCEPT !.op = "New"]
    /\ UNCHANGED <<mux, resp, last, routes, nreg, dirty, tlog, nadd, optional, sub, subRoutes, chain, race>>

DoAdd ==
    /\ TreeRunning
    /\ nadd < MaxAdds
    /\ \E path \in TreePatterns \cup BadPatterns, nilHandler \in BOOLEAN :
         LET handler == IF nilHandler THEN NilHandler ELSE UserHandler(nadd + 1)
             res == TreeAdd(tree, path, handler)
         IN  /\ tree' = res.t
             /\ tres' = [NoTres EXCEPT !.op = "Add", !.path = path, !.id = nadd + 1,
                                       !.dup = path \in DOMAIN tlog, !.h = handler, !.panic = res.panic]
             /\ tlog' = IF res.panic = "" THEN Put(tlog, path, [id |-> nadd + 1, adds |-> Adds(path) + 1])
                        ELSE IF path \in DOMAIN tlog THEN [tlog EXCEPT ![path].adds = @ + 1]
                        ELSE tlog
    /\ nadd' = nadd + 1
    /\ UNCHANGED <<mux, resp, last, routes, nreg, dirty, optional, sub, subRoutes, chain, race>>

DoGet ==
    /\ TreeRunning
    /\ \E path \in TreePaths :
         LET got == TreeGet(tree, path, TRUE, {})
         IN  tres' = [NoTres EXCEPT !.op = "Get", !.path = path, !.h = got.h, !.tsr = got.tsr, !.pv = got.pv]
    /\ UNCHANGED <<mux, resp, last, routes, nreg, dirty, tree, tlog, nadd, optional, sub, subRoutes, chain, race>>

DoFind ==
    /\ TreeRunning
    /\ \E path \in TreePaths, fixTrailingSlash \in BOOLEAN :
         LET found == FindCaseInsensitivePath(tree, path, fixTrailingSlash, <<>>)
         IN  tres' = [NoTres EXCEPT !.op = "Find", !.path = path, !.tsr = fixTrailingSlash,
                                   !.ok = found.ok, !.buf = found.buf]
    /\ UNCHANGED <<mux, resp, last, routes, nreg, dirty, tree, tlog, nadd, optional, sub, subRoutes, chain, race>>

Next == DoConfigure \/ DoHandle \/ DoMerge \/ DoServeHTTP \/ DoNew \/ DoAdd \/ DoGet \/ DoFind

Spec == Init /\ [][Next]_vars

(***************************************************************************)
(* Properties                                                              *)
(***************************************************************************)
\* C3: Mux.Handle panics whenever the method is empty, the handler is nil,
\* the pattern is empty or the pattern does not begin with '/'; Tree.Add
\* panics on a pattern without a leading '/' and on a nil handler.
C3_InvalidInputPanics ==
    /\ (last.op = "Handle"
            /\ (last.method = "" \/ last.nilHandler \/ last.path = <<>> \/ Head(last.path) # "/"))
        => last.panic # ""
    /\ (tres.op = "Add" /\ (tres.path = <<>> \/ Head(tres.path) # "/" \/ tres.h = NilHandler))
        => tres.panic # ""

\* Handle was called with a nil handler and a valid method and pattern, and
\* panicked.
C3_Witness ==
    /\ last.op = "Handle" /\ last.nilHandler /\ last.method = "GET" /\ last.path = pA
    /\ last.panic = "handler must not be nil"

\* C4: on an immutable tree an Add of a pattern that is already registered
\* panics, and every later Get of that pattern returns the handler of the
\* first registration.
C4_ImmutableDuplicatePanics ==
    /\ (tres.op = "Add" /\ ~tree.Mutable /\ tres.dup /\ tres.h # NilHandler) => tres.panic # ""
    /\ (tres.op = "Get" /\ ~tree.Mutable /\ tres.path \in DOMAIN tlog)
        => (tres.h.kind = "user" /\ tres.h.id = tlog[tres.path].id)

\* A Get of a pattern that was added twice to an immutable tree.
C4_Witness ==
    /\ tres.op = "Get" /\ ~tree.Mutable /\ tres.path \in DOMAIN tlog
    /\ tlog[tres.path].adds >= 2
    /\ tres.h.id = tlog[tres.path].id

\* C5: on a mutable tree an Add of a pattern that is already registered
\* returns normally and replaces the handler, whether the pattern ends in
\* plain text, a parameter or a wildcard; every later Get of a registered
\* pattern returns the handler of its last Add.
C5_MutableDuplicateReplaces ==
    /\ (tres.op = "Add" /\ tree.Mutable /\ tres.dup /\ tres.h # NilHandler) => tres.panic = ""
    /\ (tres.op = "Get" /\ tree.Mutable /\ tres.path \in DOMAIN tlog)
        => (tres.h.kind = "user" /\ tres.h.id = tlog[tres.path].id)

(***************************************************************************)
(* What it is for a path to match a concrete pattern: literal text matches *)
(* itself, {name} and {name:regex} one segment of at least one character,  *)
(* {name:*} the rest of the path.  Captures is the set of the possible     *)
(* path values, empty when the path does not match.                        *)
(***************************************************************************)
IndexOf(seq, c) == IF \E i \in 1..Len(seq) : seq[i] = c
                   THEN CHOOSE i \in 1..Len(seq) : seq[i] = c /\ \A j \in 1..(i - 1) : seq[j] # c
                   ELSE 0

RECURSIVE Captures(_, _)
Captures(pattern, path) ==
    IF pattern = <<>> THEN IF path = <<>> THEN {{}} ELSE {}
    ELSE IF Head(pattern) = "{"
    THEN LET close == IndexOf(pattern, "}")
             inner == SubSeq(pattern, 2, close - 1)
             colon == IndexOf(inner, ":")
             name == IF colon = 0 THEN inner ELSE SubSeq(inner, 1, colon - 1)
             rest == SubSeq(pattern, close + 1, Len(pattern))
             slash == IndexOf(path, "/")
             segment == IF slash = 0 THEN path ELSE SubSeq(path, 1, slash - 1)
         IN  IF colon # 0 /\ SubSeq(inner, colon + 1, Len(inner)) = <<"*">>
             THEN {{<<name, path>>}}
             ELSE IF segment = <<>> THEN {}
             ELSE {c \cup {<<name, segment>>} :
                      c \in Captures(rest, SubSeq(path, Len(segment) + 1, Len(path)))}
    ELSE IF path # <<>> /\ Head(path) = Head(pattern) THEN Captures(Tail(pattern), Tail(path))
    ELSE {}

Matches(pattern, path) == Captures(pattern, path) # {}

\* The request went to the function registered with this id.
Dispatched(id) ==
    resp.calls # <<>> /\ Head(resp.calls).fn \in {"route", "mount"} /\ Head(resp.calls).id = id

\* The routes registered under the request's method that match its path.
Matching == {rt \in routes : rt.method = resp.r.Method /\ Matches(rt.pattern, resp.r.Path)}

Outcomes ==
    {i \in DOMAIN resp.calls :
        resp.calls[i].fn \in {"route", "mounted", "redirect", "GlobalOPTIONS",
                              "OnMethodNotAllowed", "OnNotFound"}}

Redirected == \E i \in DOMAIN resp.calls : resp.calls[i].fn = "redirect"

RedirectedBy(how) == \E i \in DOMAIN resp.calls : resp.calls[i] = Call("redirect", resp.w.status, how)

C6_RedirectStatus ==
    (resp.served /\ (Redirected \/ resp.w.status \in {StatusMovedPermanently, StatusPermanentRedirect}))
        => /\ Redirected
           /\ resp.w.status = IF resp.r.Method = MethodGet THEN StatusMovedPermanently
                              ELSE StatusPermanentRedirect

\* A POST was redirected with 308 to the fixed path of a route registered
\* under the wildcard method.
C6_Witness ==
    /\ resp.served /\ resp.r.Method = "POST" /\ RedirectedBy(<<"fixed">>)
    /\ resp.w.status = StatusPermanentRedirect
    /\ routes # {} /\ \A rt \in routes : rt.method = MethodWild

\* C7: a CONNECT request and a request for "/" are never answered with a
\* redirect.
C7_NoRedirectForConnectOrRoot ==
    (resp.served /\ (resp.r.Method = MethodConnect \/ resp.r.Path = pRoot))
        => (~Redirected /\ resp.w.status \notin {StatusMovedPermanently, StatusPermanentRedirect})

\* A CONNECT request for /a/ was answered with 404 although /a is
\* registered for every method and the trailing-slash redirect is on.
C7_Witness ==
    /\ resp.served /\ resp.r.Method = MethodConnect /\ resp.r.Path = pASlash
    /\ mux.RedirectTrailingSlash /\ ~dirty
    /\ \E rt \in routes : rt.method = MethodWild /\ rt.pattern = pA
    /\ resp.w.status = 404

\* The response carries this Location header.
Location(uri) == "Location" \in DOMAIN resp.w.sent /\ resp.w.sent["Location"] = uri

Query == IF Len(resp.r.RawQuery) > 0 THEN <<"?">> \o resp.r.RawQuery ELSE <<>>

\* The tree of the request's method has no handler for the path and
\* recommends the redirect to the path with or without the trailing slash.
TsrRecommended ==
    LET i == methodIndexOf(mux, resp.r.Method)
    IN  /\ i > -1 /\ inRange(mux, i) /\ ~treeAt(mux, i).nil
        /\ LET got == TreeGet(treeAt(mux, i).ref, resp.r.Path, FALSE, {})
           IN  got.h = NilHandler /\ got.tsr

\* C8: with RedirectTrailingSlash on, a request, not CONNECT and not for
\* "/", without a match but with the tree's recommendation, is answered
\* with a redirect whose Location is the path with the trailing '/' removed
\* or added, then '?' and the raw query when there is one.
C8_TrailingSlashLocation ==
    (resp.served /\ mux.RedirectTrailingSlash /\ resp.r.Method # MethodConnect
        /\ resp.r.Path # pRoot /\ TsrRecommended)
    => /\ Redirected
       /\ Location((IF resp.r.Path[Len(resp.r.Path)] = "/"
                    THEN SubSeq(resp.r.Path, 1, Len(resp.r.Path) - 1)
                    ELSE resp.r.Path \o <<"/">>) \o Query)

\* A route without parameters, registered under the request's method, whose
\* pattern differs from the request's path in the case of letters only.
CaseVariants ==
    {rt \in routes : /\ rt.method = resp.r.Method
                     /\ IndexOf(rt.pattern, "{") = 0
                     /\ rt.pattern # resp.r.Path
                     /\ EqualFold(rt.pattern, resp.r.Path)}

\* C9: with RedirectFixedPath on, a request, not CONNECT, whose path
\* differs from a registered route in the case of letters only is answered
\* with a redirect whose Location is the route as registered, then the
\* query.
C9_FixedPathLocation ==
    (resp.served /\ ~dirty /\ mux.RedirectFixedPath /\ resp.r.Method # MethodConnect)
    => \A rt \in CaseVariants : Redirected /\ Location(rt.pattern \o Query)

RECURSIVE Ascending(_)
\* The methods of a set in Go's order of strings.
Ascending(S) ==
    IF S = {} THEN <<>>
    ELSE LET x == CHOOSE k \in S : \A k2 \in S : k2 = k \/ StringLess(k, k2)
         IN  <<x>> \o Ascending(S \ {x})

\* The methods that have a route matching the request's path.
MethodsAtPath == {rt.method : rt \in {x \in routes : Matches(x.pattern, resp.r.Path)}}

\* The Allow header of the claim, and the answer of the method-not-allowed
\* handler with it.
MethodNotAllowedAnswer ==
    /\ Cardinality(Outcomes) = 1
    /\ \E i \in Outcomes : resp.calls[i].fn = "OnMethodNotAllowed"
    /\ mux.OnMethodNotAllowed = "DefaultOnMethodNotAllowed" => resp.w.status = 405
    /\ "Allow" \in DOMAIN resp.w.sent
    /\ resp.w.sent["Allow"] = Ascending((MethodsAtPath \ {MethodOptions}) \cup {MethodOptions})

\* C10 as stated: a path with routes under some methods, none of them the
\* request's method or the wildcard method, is answered by the
\* method-not-allowed handler with the Allow header of the claim.
C10_Original ==
    (resp.served /\ ~dirty /\ MethodsAtPath # {}
        /\ resp.r.Method \notin MethodsAtPath /\ MethodWild \notin MethodsAtPath)
    => MethodNotAllowedAnswer

\* C10, amended: the same, when a method-not-allowed handler is set, some
\* method other than OPTIONS has a route at the path, the request is not an
\* OPTIONS request answered by GlobalOPTIONS, and no redirect answers it.
C10_MethodNotAllowed ==
    (resp.served /\ ~dirty /\ MethodsAtPath \ {MethodOptions} # {}
        /\ resp.r.Method \notin MethodsAtPath /\ MethodWild \notin MethodsAtPath
        /\ mux.OnMethodNotAllowed # "nil"
        /\ ~(resp.r.Method = MethodOptions /\ mux.GlobalOPTIONS # "nil")
        /\ ~Redirected)
    => MethodNotAllowedAnswer

\* A POST for /a, registered under GET and under OPTIONS, was answered with
\* 405 and Allow: GET, OPTIONS.
C10_Witness ==
    /\ resp.served /\ ~dirty /\ resp.r.Method = "POST" /\ resp.r.Path = pA
    /\ MethodsAtPath = {"GET", "OPTIONS"}
    /\ resp.w.status = 405
    /\ "Allow" \in DOMAIN resp.w.sent /\ resp.w.sent["Allow"] = <<"GET", "OPTIONS">>

(***************************************************************************)
(* The router with routes under standard, custom, OPTIONS and wildcard     *)
(* methods, and the handlers its owner sets.  A request may ask for "*",   *)
(* the server as a whole, and may come with a method no route was          *)
(* registered under.                                                       *)
(***************************************************************************)
pAOpt == <<"/", "a", "/", "{", "x", "?", "}">>

pStar == <<"*">>

MethodInputs ==
    {<<"GET", pA>>, <<"GET", pASlash>>, <<"GET", pAOpt>>, <<"POST", pA>>, <<"OPTIONS", pA>>,
     <<"CUSTOM", pA>>, <<MethodWild, pA>>}

\* OnPanic and OnMethodNotAllowed: the default, one of the owner's that
\* writes no status, or nil.
Handlers ==
    {[NewMux EXCEPT !.OnPanic = c[1], !.OnMethodNotAllowed = c[2]] :
        c \in {"DefaultOnPanic", "user", "nil"} \X {"DefaultOnMethodNotAllowed", "user", "nil"}}

DoSetHandlers ==
    /\ last.op = "none" /\ tres.op = "none" /\ ~resp.served
    /\ mux' \in Handlers
    /\ last' = [NoCall EXCEPT !.op = "Configure"]
    /\ UNCHANGED <<resp, routes, nreg, dirty, tree, tres, tlog, nadd, optional, sub, subRoutes, chain, race>>

DoHandleMethod ==
    /\ Running
    /\ nreg < MaxRoutes
    /\ \E in \in MethodInputs :
         Registered("Handle", in[1], in[2], FALSE,
                    Handle(mux, in[1], in[2], UserHandler(nreg + 1)),
                    IF Len(getOptionalPaths(in[2])) = 0 THEN {in[2]}
                    ELSE Range(getOptionalPaths(in[2])))

DoServeMethod ==
    /\ Running
    /\ \E method \in {"GET", "POST", "OPTIONS", "CUSTOM"},
          path \in {pA, pASlash, pAB, pStar}, does \in {"ok", "panic"} :
         resp' = ServeHTTP(mux, Request(method, path, <<>>, <<>>), does)
    /\ UNCHANGED <<mux, last, routes, nreg, dirty, tree, tres, tlog, nadd, optional, sub, subRoutes, chain, race>>

MethodNext == DoSetHandlers \/ DoHandleMethod \/ DoServeMethod

MethodSpec == Init /\ [][MethodNext]_vars

(***************************************************************************)
(* Properties: OPTIONS requests                                            *)
(***************************************************************************)
\* The methods with a route, and the Allow header made of a set of methods:
\* those other than OPTIONS in ascending order with OPTIONS among them, or
\* none when the set has no method other than OPTIONS.
MethodsRegistered == {rt.method : rt \in routes}

AllowOf(methods) ==
    IF methods \ {MethodOptions} = {} THEN <<>>
    ELSE Ascending((methods \ {MethodOptions}) \cup {MethodOptions})

\* An OPTIONS request, on a router without GlobalOPTIONS, for a path without
\* an OPTIONS route and with routes under other methods, or for "*" on a
\* router with such routes.
AutomaticOptions ==
    /\ resp.served /\ ~dirty
    /\ resp.r.Method = MethodOptions /\ mux.GlobalOPTIONS = "nil"
    /\ MethodOptions \notin MethodsAtPath /\ MethodWild \notin MethodsAtPath
    /\ \/ MethodsAtPath # {}
       \/ resp.r.Path = pStar /\ MethodsRegistered \ {MethodOptions} # {}

\* C11: an OPTIONS request for a path with routes under other methods only
\* (or for "*"), on a router without GlobalOPTIONS, is answered with status
\* 200 and the Allow header that a 405 for the path carries.
C11_AutomaticOptions ==
    AutomaticOptions =>
        /\ resp.w.status = 200
        /\ "Allow" \in DOMAIN resp.w.sent
        /\ resp.w.sent["Allow"] =
               AllowOf(IF resp.r.Path = pStar THEN MethodsRegistered ELSE MethodsAtPath)

(***************************************************************************)
(* Properties: panics                                                      *)
(***************************************************************************)
\* The calls of OnPanic in the request served last.
PanicCalls == {i \in DOMAIN resp.calls : resp.calls[i].fn = "OnPanic"}

\* C12: when a handler panics and OnPanic is set, the panic does not leave
\* ServeHTTP and OnPanic is called exactly once, with the panic value; when
\* OnPanic is nil the panic propagates and OnPanic is not called.
C12_PanicRecovered ==
    resp.served /\ resp.panic # "" =>
        IF mux.OnPanic # "nil"
        THEN /\ ~resp.propagated
             /\ Cardinality(PanicCalls) = 1
             /\ \A i \in PanicCalls : resp.calls[i].arg = <<resp.panic>>
        ELSE resp.propagated /\ PanicCalls = {}

\* The handler of a route panicked and the owner's OnPanic received it.
C12_Witness ==
    /\ resp.served /\ resp.panic = "handler panic"
    /\ \E i \in DOMAIN resp.calls : resp.calls[i].fn = "route"
    /\ mux.OnPanic = "user" /\ ~resp.propagated
    /\ PanicCalls # {}

(***************************************************************************)
(* getOptionalPaths as a function of the pattern: the patterns Handle adds *)
(* to the tree for one registration pattern.                               *)
(***************************************************************************)
\* Segments of a pattern per input.
MaxSegments == 3

\* A parameter segment: a name, the optional marker, and a constraint after
\* ':' when regex is not empty.
Param(name, marked, regex) ==
    [text |-> <<"{">> \o name \o (IF marked THEN <<"?">> ELSE <<>>)
                \o (IF Len(regex) > 0 THEN <<":">> \o regex ELSE <<>>) \o <<"}">>,
     marked |-> marked,
     mandatory |-> <<"{">> \o name \o (IF Len(regex) > 0 THEN <<":">> \o regex ELSE <<>>) \o <<"}">>]

Static(text) == [text |-> text, marked |-> FALSE, mandatory |-> text]

\* Constraints: none, any text, one with a '?', one with a nested pair of
\* braces, and one with a '?' between nested braces (a '}', or "{}").
Constraints ==
    {<<>>, <<".", "*">>, <<"b", "?">>, <<"c", "{", "2", "}">>, <<"\\", "{", "?", "\\", "}">>}

Segments ==
    {Static(<<"a">>)} \cup {Param(<<"x">>, marked, regex) : marked \in BOOLEAN, regex \in Constraints}

\* /show/{name}/{surname?}/at/{address?}/{id}/{phone?:.*}
Example ==
    <<Static(<<"s", "h", "o", "w">>), Param(<<"n", "a", "m", "e">>, FALSE, <<>>),
      Param(<<"s", "u", "r", "n", "a", "m", "e">>, TRUE, <<>>), Static(<<"a", "t">>),
      Param(<<"a", "d", "d", "r", "e", "s", "s">>, TRUE, <<>>), Param(<<"i", "d">>, FALSE, <<>>),
      Param(<<"p", "h", "o", "n", "e">>, TRUE, <<".", "*">>)>>

SegmentInputs ==
    {Example} \cup UNION {[1..n -> Segments] : n \in 1..MaxSegments}

\* The pattern with the first n of the segments, as written or with the
\* optional markers removed.
RECURSIVE Joined(_, _, _)
Joined(segs, n, written) ==
    IF n = 0 THEN <<>>
    ELSE Joined(segs, n - 1, written) \o <<"/">>
         \o (IF written THEN segs[n].text ELSE segs[n].mandatory)

\* The patterns Handle adds to the tree for a pattern.
Expansion(path) ==
    IF Len(getOptionalPaths(path)) = 0 THEN <<path>> ELSE getOptionalPaths(path)

OptionalInit ==
    /\ mux = NewMux /\ resp = NoResp /\ last = NoCall /\ routes = {} /\ nreg = 0
    /\ dirty = FALSE /\ tree = New /\ tres = NoTres /\ tlog = EmptyMap /\ nadd = 0
    /\ sub = NewMux /\ subRoutes = {} /\ chain = EmptyMap /\ race = NoRace
    /\ \E segs \in SegmentInputs :
         optional = [NoOptional EXCEPT !.segs = segs, !.path = Joined(segs, Len(segs), TRUE)]

DoGetOptionalPaths ==
    /\ ~optional.done
    /\ optional' = [optional EXCEPT !.paths = Expansion(optional.path), !.done = TRUE]
    /\ UNCHANGED <<mux, resp, last, routes, nreg, dirty, tree, tres, tlog, nadd, sub, subRoutes, chain, race>>

OptionalNext == DoGetOptionalPaths

OptionalSpec == OptionalInit /\ [][OptionalNext]_vars

(***************************************************************************)
(* Properties: optional parameters                                         *)
(***************************************************************************)
\* The marked parameters of the pattern given.
Marked == {k \in 1..Len(optional.segs) : optional.segs[k].marked}

\* The patterns of the claim: for each optional parameter the pattern before
\* its segment and the pattern up to it, markers removed; the pattern itself
\* when it has no optional parameter.
Concrete ==
    IF Marked = {} THEN {optional.path}
    ELSE {IF k = 1 THEN <<"/">> ELSE Joined(optional.segs, k - 1, FALSE) : k \in Marked}
         \cup {Joined(optional.segs, k, FALSE) : k \in Marked}

\* C13: the patterns registered for a pattern with optional parameters are,
\* for each optional parameter, the pattern before its segment and the
\* pattern up to and including it made mandatory, and no other; a '?'
\* inside a constraint is not an optional marker.
C13_OptionalExpansion ==
    optional.done => Range(optional.paths) = Concrete

(***************************************************************************)
(* A router mounted on another: Handle calls on the source router, one     *)
(* Merge of it into the router under a prefix, then requests.              *)
(***************************************************************************)
pP == <<"/", "p">>

pSStar == <<"/", "s", "/", "*">>

SourceInputs ==
    {<<"GET", pRoot>>, <<"GET", pA>>, <<"GET", pAParam>>, <<"POST", pA>>, <<"GET", pSStar>>}

\* The orders in which a range over a map with these keys yields them.
Orders(keys) ==
    {o \in [1..Cardinality(keys) -> keys] : \A k \in keys : \E i \in DOMAIN o : o[i] = k}

DoHandleSource ==
    /\ last.op = "none"
    /\ Cardinality(subRoutes) < MaxRoutes
    /\ \E in \in SourceInputs :
         LET added(r) ==
                 /\ r.panic = ""
                 /\ sub' = r.m
                 /\ subRoutes' = subRoutes \cup {Route(in[1], in[2], 11 + Cardinality(subRoutes))}
         IN  added(Handle(sub, in[1], in[2], UserHandler(11 + Cardinality(subRoutes))))
    /\ UNCHANGED <<mux, resp, last, routes, nreg, dirty, tree, tres, tlog, nadd, optional, chain, race>>

DoMergeMux ==
    /\ last.op = "none"
    /\ \E prefix \in {pP, <<>>}, methods \in Orders(DOMAIN sub.registeredPaths) :
         LET merged(r) ==
                 /\ mux' = r.m
                 /\ last' = [op |-> "Merge", method |-> "", path |-> prefix, nilHandler |-> FALSE,
                             panic |-> r.panic, changed |-> r.m # mux]
         IN  merged(MergeMux(mux, prefix, sub, methods))
    /\ UNCHANGED <<resp, routes, nreg, dirty, tree, tres, tlog, nadd, optional, sub, subRoutes, chain, race>>

DoServeMerged ==
    /\ last.op = "Merge" /\ ~resp.served /\ (last.panic = "" \/ last.changed)
    /\ \E method \in {"GET", "POST"},
          path \in {pRoot, pA, pAB, pSStar, pP, pP \o pA, pP \o pAB, pP \o pSStar} :
         resp' = ServeHTTP(mux, Request(method, path, <<>>, <<>>), "ok")
    /\ UNCHANGED <<mux, last, routes, nreg, dirty, tree, tres, tlog, nadd, optional, sub, subRoutes, chain, race>>

MergeNext == DoHandleSource \/ DoMergeMux \/ DoServeMerged

MergeSpec == Init /\ [][MergeNext]_vars

(***************************************************************************)
(* Properties: Merge of a Mux                                              *)
(***************************************************************************)
\* The pattern of a route of the source on the router it was merged into.
Mounted(prefix, pattern) == IF prefix # <<>> /\ pattern = <<"/">> THEN prefix ELSE prefix \o pattern

\* The function of the source route with this id ran, called by the route or
\* by the function Merge wraps a handler in.
Ran(id) == \E i \in DOMAIN resp.calls : resp.calls[i].fn \in {"route", "mounted"} /\ resp.calls[i].id = id

\* C14: Merge of a Mux registers every route of the source on the router
\* under prefix + pattern (the prefix alone for the pattern "/"), and a
\* request for it under the route's method reaches the source's handler
\* with the path values of the whole pattern.
C14_MergeRegistersRoutes ==
    /\ last.op = "Merge" => last.panic = ""
    /\ last.op = "Merge" /\ resp.served =>
          \A rt \in subRoutes :
              rt.method = resp.r.Method /\ Matches(Mounted(last.path, rt.pattern), resp.r.Path) =>
                  Ran(rt.id) /\ resp.pv \in Captures(Mounted(last.path, rt.pattern), resp.r.Path)

(***************************************************************************)
(* Properties: Merge of a handler that is not a Mux                        *)
(***************************************************************************)
\* The prefix of a mount without its last byte, the '*'.
Literal(prefix) == Slice(prefix, 0, Len(prefix) - 1)

\* The mounts the request was dispatched to.
MountsCalled == {rt \in routes : Head(resp.calls).fn = "mount" /\ Head(resp.calls).id = rt.id}

\* The request was handed to the mounted handler with this path.
Delegated(id, path) ==
    /\ Len(resp.calls) >= 2
    /\ resp.calls[2] = Call("mounted", id, path)

\* The not-found handler answered in place of the mounted handler.
Refused == Len(resp.calls) >= 2 /\ resp.calls[2].fn = "OnNotFound"

\* Merge with a prefix that does not end in '*' panics and registers
\* nothing; Merge with one that does puts one function in the tree of the
\* wildcard method, at the prefix.
MergeRegistersMount ==
    last.op = "Merge" =>
        IF ~HasSuffix(last.path, <<"*">>) THEN last.panic # "" /\ ~last.changed
        ELSE last.panic = "" =>
                /\ ~treeAt(mux, methodIndexOf(mux, MethodWild)).nil
                /\ TreeGet(treeAt(mux, methodIndexOf(mux, MethodWild)).ref, last.path, TRUE, {}).h.kind
                       = "mount"
                /\ last.path \in Range(mux.registeredPaths[MethodWild])

\* C15 as stated: a request dispatched to a mount is handed to the mounted
\* handler without the literal prefix when its path starts with the literal
\* prefix, and answered by the not-found handler when it does not.
C15_Original ==
    /\ MergeRegistersMount
    /\ resp.served /\ resp.calls # <<>> =>
          \A rt \in MountsCalled :
              IF HasPrefix(resp.r.Path, Literal(rt.pattern))
              THEN Delegated(rt.id, TrimPrefix(resp.r.Path, Literal(rt.pattern)))
              ELSE Refused

\* C15, amended: the same, the request being handed on only when its raw
\* path, if it has one, starts with the literal prefix as well.
C15_MountDelegates ==
    /\ MergeRegistersMount
    /\ resp.served /\ resp.calls # <<>> =>
          \A rt \in MountsCalled :
              IF /\ HasPrefix(resp.r.Path, Literal(rt.pattern))
                 /\ resp.r.RawPath = <<>> \/ HasPrefix(resp.r.RawPath, Literal(rt.pattern))
              THEN Delegated(rt.id, TrimPrefix(resp.r.Path, Literal(rt.pattern)))
              ELSE Refused

\* A request for /m/* was handed to the handler mounted at /m/* with the
\* path "*".
C15_Witness ==
    /\ resp.served /\ resp.calls # <<>> /\ resp.r.Path = pMount
    /\ \E rt \in MountsCalled : rt.pattern = pMount /\ Delegated(rt.id, <<"*">>)

(***************************************************************************)
(* List                                                                    *)
(***************************************************************************)
\* The patterns of a sequence with each one replaced by the patterns Handle
\* adds to the tree for it.
RECURSIVE Expanded(_)
Expanded(paths) ==
    IF paths = <<>> THEN <<>> ELSE Expansion(Head(paths)) \o Expanded(Tail(paths))

\* List returning, per method, the patterns added to the method's tree.
ListExpanded(m) == [method \in DOMAIN m.registeredPaths |-> Expanded(m.registeredPaths[method])]

List(m) == m.registeredPaths

(***************************************************************************)
(* Properties: List                                                        *)
(***************************************************************************)
\* The concrete patterns of the routes registered under a method.
Resolved(method) == {rt.pattern : rt \in {x \in routes : x.method = method}}

ListAppends ==
    IF nreg' # nreg
    THEN /\ DOMAIN List(mux') = DOMAIN List(mux) \cup {last'.method}
         /\ \A method \in DOMAIN List(mux') :
              List(mux')[method] =
                  IF method # last'.method THEN List(mux)[method]
                  ELSE Append(IF method \in DOMAIN List(mux) THEN List(mux)[method] ELSE <<>>,
                              last'.path)
    ELSE List(mux') = List(mux)

\* What the trees resolve are the expansions of the patterns listed.
ListResolves ==
    ~dirty =>
        /\ DOMAIN List(mux) = MethodsRegistered
        /\ \A method \in DOMAIN List(mux) :
              Range(Expanded(List(mux)[method])) = Resolved(method)

MaxPre == 2

\* Pre with the middleware given, each named by a number.
Pre(m, mw) == [m EXCEPT !.mw = @ \o mw]

DoPre ==
    /\ ~resp.served
    /\ Len(mux.mw) < MaxPre
    /\ mux' = Pre(mux, <<Len(mux.mw) + 1>>)
    /\ UNCHANGED <<resp, last, routes, nreg, dirty, tree, tres, tlog, nadd, optional, sub, subRoutes, chain, race>>

DoHandleChained ==
    /\ ~resp.served
    /\ nreg < MaxRoutes
    /\ \E in \in {<<"GET", pA>>, <<"GET", pAB>>, <<"POST", pA>>, <<MethodWild, pA>>} :
         Registered("Handle", in[1], in[2], FALSE,
                    Handle(mux, in[1], in[2], UserHandler(nreg + 1)), {in[2]})

DoMergeChained ==
    /\ ~resp.served
    /\ nreg < MaxRoutes
    /\ Registered("Merge", MethodWild, pMount, FALSE, Merge(mux, pMount, nreg + 1), {pMount})

DoServeChained ==
    /\ Running
    /\ \E method \in {"GET", "POST"}, path \in {pA, pAB, pMount}, does \in {"ok", "err"} :
         resp' = ServeHTTP(mux, Request(method, path, <<>>, <<>>), does)
    /\ UNCHANGED <<mux, last, routes, nreg, dirty, tree, tres, tlog, nadd, optional, sub, subRoutes, chain, race>>

MiddlewareNext == DoPre \/ DoHandleChained \/ DoMergeChained \/ DoServeChained

MiddlewareSpec == Init /\ [][MiddlewareNext]_vars

(***************************************************************************)
(* Properties: middleware                                                  *)
(***************************************************************************)
\* The calls of registered functions in the request served last.
RouteCalls == {i \in DOMAIN resp.calls : resp.calls[i].fn \in {"route", "mount"}}

\* C17: the function of a route runs inside the middleware attached to the
\* router when the route was registered, none attached later and none
\* missing, whatever the order of the Pre and Handle calls.
C17_ChainFixedAtRegistration ==
    resp.served =>
        \A i \in RouteCalls :
            /\ resp.calls[i].id \in DOMAIN chain
            /\ resp.calls[i].arg = chain[resp.calls[i].id]

\* A route registered between two Pre calls ran with the middleware of the
\* first call only.
C17_Witness ==
    /\ resp.served /\ mux.mw = <<1, 2>>
    /\ \E i \in RouteCalls : resp.calls[i].fn = "route" /\ resp.calls[i].arg = <<1>>

(***************************************************************************)
(* Properties: ANY                                                         *)
(***************************************************************************)
\* The routes of the wildcard method that match the request's path.
MatchingAny == {rt \in routes : rt.method = MethodWild /\ Matches(rt.pattern, resp.r.Path)}

\* No registered function ran.
NoneDispatched == \A rt \in routes : ~Dispatched(rt.id)

\* C18 as stated: a request whose path a route of the wildcard method
\* matches goes to the matching route of its own method when there is one,
\* and to the route of the wildcard method otherwise.
C18_Original ==
    (resp.served /\ ~dirty /\ resp.r.Method # MethodWild) =>
        \A any \in MatchingAny :
            IF Matching # {}
            THEN ~Dispatched(any.id) /\ \E rt \in Matching : Dispatched(rt.id)
            ELSE Dispatched(any.id)

\* C18, amended: the same, except that a request without a matching route of
\* its own method may be answered by a redirect found in the tree of its
\* method, which has routes then; no registered function runs in that case.
C18_AnyServesEveryMethod ==
    (resp.served /\ ~dirty /\ resp.r.Method # MethodWild) =>
        \A any \in MatchingAny :
            IF Matching # {}
            THEN ~Dispatched(any.id) /\ \E rt \in Matching : Dispatched(rt.id)
            ELSE IF Redirected
            THEN NoneDispatched /\ resp.r.Method \in MethodsRegistered
            ELSE Dispatched(any.id)

\* A request of a method without routes went to the route of the wildcard
\* method.
C18_Witness ==
    /\ resp.served /\ ~dirty /\ resp.r.Method = "CUSTOM" /\ "CUSTOM" \notin MethodsRegistered
    /\ \E any \in MatchingAny : Dispatched(any.id)

(***************************************************************************)
(* Properties: the server-wide Allow                                       *)
(***************************************************************************)
\* C20: after registrations that all succeeded, the answer kept for the
\* path "*" is the ascending list of the methods with a route other than
\* OPTIONS, with OPTIONS among them when there is one.
C20_GlobalAllowedFresh ==
    ~dirty =>
        /\ mux.globalAllowed = AllowOf(MethodsRegistered)
        /\ allowed(mux, pStar, MethodGet).allow = AllowOf(MethodsRegistered)

(***************************************************************************)
(* Routes of one prefix with one, two and three parameters, registered on  *)
(* the router or on a router merged into it under /v1.                     *)
(***************************************************************************)
\* Routes with the prefix /foo/ per Mux.
MaxShapes == 3

pFoo == <<"/", "f", "o", "o", "/">>

pId == <<"{", "i", "d", "}">>

\* /foo/{id}
pFoo1 == pFoo \o pId

\* /foo/{id}/{iid}
pFoo2 == pFoo1 \o <<"/", "{", "i", "i", "d", "}">>

\* /foo/{id}/{pageSize}/{page}
pFoo3 ==
    pFoo1 \o <<"/", "{", "p", "a", "g", "e", "S", "i", "z", "e", "}", "/", "{", "p", "a", "g", "e", "}">>

Shapes == {pFoo1, pFoo2, pFoo3}

pV1 == <<"/", "v", "1">>

\* /foo/v3, /foo/2/3 and /foo/1/20/4
ShapePaths ==
    {pFoo \o <<"v", "3">>, pFoo \o <<"2", "/", "3">>, pFoo \o <<"1", "/", "2", "0", "/", "4">>}

DoHandleShape ==
    /\ last.op # "Merge" /\ ~resp.served
    /\ nreg < MaxShapes
    /\ \E pattern \in Shapes \ {rt.pattern : rt \in routes} :
         Registered("Handle", "GET", pattern, FALSE,
                    Handle(mux, "GET", pattern, UserHandler(nreg + 1)), {pattern})

DoHandleSourceShape ==
    /\ last.op = "none"
    /\ Cardinality(subRoutes) < MaxShapes
    /\ \E pattern \in Shapes :
         LET added(r) ==
                 /\ r.panic = ""
                 /\ sub' = r.m
                 /\ subRoutes' = subRoutes \cup {Route("GET", pattern, 11 + Cardinality(subRoutes))}
         IN  added(Handle(sub, "GET", pattern, UserHandler(11 + Cardinality(subRoutes))))
    /\ UNCHANGED <<mux, resp, last, routes, nreg, dirty, tree, tres, tlog, nadd, optional, chain, race>>

DoMergeShapes ==
    /\ last.op = "none" /\ subRoutes # {}
    /\ LET merged(r) ==
               /\ mux' = r.m
               /\ last' = [op |-> "Merge", method |-> "", path |-> pV1, nilHandler |-> FALSE,
                           panic |-> r.panic, changed |-> r.m # mux]
       IN  merged(MergeMux(mux, pV1, sub, <<"GET">>))
    /\ UNCHANGED <<resp, routes, nreg, dirty, tree, tres, tlog, nadd, optional, sub, subRoutes, chain, race>>

DoServeShape ==
    /\ last.op # "none" /\ ~resp.served
    /\ \E path \in ShapePaths \cup {pV1 \o p : p \in ShapePaths} :
         resp' = ServeHTTP(mux, Request("GET", path, <<>>, <<>>), "ok")
    /\ UNCHANGED <<mux, last, routes, nreg, dirty, tree, tres, tlog, nadd, optional, sub, subRoutes, chain, race>>

ShapeNext == DoHandleShape \/ DoHandleSourceShape \/ DoMergeShapes \/ DoServeShape

ShapeSpec == Init /\ [][ShapeNext]_vars

(***************************************************************************)
(* Properties: routes of one prefix                                        *)
(***************************************************************************)
\* The routes the router has, the merged ones under the prefix of the merge.
ShapeRoutes ==
    routes \cup (IF last.op = "Merge"
                 THEN {Route(rt.method, Mounted(last.path, rt.pattern), rt.id) : rt \in subRoutes}
                 ELSE {})

\* C19: the three routes register without a panic, on the router or through
\* a merge, and a request goes to the route with as many parameters as it
\* has segments after /foo/, with that route's path values and no other.
C19_SamePrefixParamRoutes ==
    /\ last.panic = ""
    /\ resp.served =>
          \A rt \in ShapeRoutes :
              Matches(rt.pattern, resp.r.Path) =>
                  /\ Ran(rt.id)
                  /\ \A other \in ShapeRoutes : other.id # rt.id => ~Ran(other.id)
                  /\ resp.pv \in Captures(rt.pattern, resp.r.Path)

(***************************************************************************)
(* Properties: the order of the stages of ServeHTTP                        *)
(***************************************************************************)
\* The index of the tree of the request's method, and of the wildcard
\* method.
OwnIndex == methodIndexOf(mux, resp.r.Method)

WildIndex == methodIndexOf(mux, MethodWild)

\* The router has a tree at the index.
HasTree(i) == i > -1 /\ inRange(mux, i) /\ ~treeAt(mux, i).nil

\* What the tree at the index answers for the request's path.
GetIn(i) == TreeGet(treeAt(mux, i).ref, resp.r.Path, TRUE, {})

FindIn(i) ==
    FindCaseInsensitivePath(treeAt(mux, i).ref, TrimSuffix(resp.r.Path, <<".">>),
                            mux.RedirectTrailingSlash, <<>>)

\* The stages a tree can answer at: a match, the trailing-slash redirect,
\* the fixed-path redirect.
MatchIn(i) == HasTree(i) /\ GetIn(i).h # NilHandler

MayRedirect(i) ==
    HasTree(i) /\ ~MatchIn(i) /\ resp.r.Method # MethodConnect /\ resp.r.Path # <<"/">>

TsrIn(i) == MayRedirect(i) /\ GetIn(i).tsr /\ mux.RedirectTrailingSlash

FixIn(i) == MayRedirect(i) /\ ~TsrIn(i) /\ mux.RedirectFixedPath /\ FindIn(i).ok

AnswersIn(i) == MatchIn(i) \/ TsrIn(i) \/ FixIn(i)

\* The Allow stage has an answer.
AllowAnswers ==
    IF resp.r.Method = MethodOptions /\ mux.GlobalOPTIONS # "nil"
    THEN Len(allowed(mux, resp.r.Path, MethodOptions).allow) > 0
    ELSE mux.OnMethodNotAllowed # "nil" /\ Len(allowed(mux, resp.r.Path, resp.r.Method).allow) > 0

\* The request was answered at the stage: by the function the tree at the
\* index holds for the path, or by a redirect of the kind to where the tree
\* leads.
MatchedIn(i) ==
    Head(resp.calls).fn \in {"route", "mount"} /\ Head(resp.calls).id = GetIn(i).h.id

TsrFrom(i) == Head(resp.calls).fn = "redirect" /\ Head(resp.calls).arg = <<"tsr">>

FixedFrom(i) ==
    /\ Head(resp.calls).fn = "redirect" /\ Head(resp.calls).arg = <<"fixed">>
    /\ "Location" \in DOMAIN resp.w.header
    /\ resp.w.header["Location"] = FindIn(i).buf \o Query

AnsweredIn(i) ==
    IF MatchIn(i) THEN MatchedIn(i) ELSE IF TsrIn(i) THEN TsrFrom(i) ELSE FixedFrom(i)

\* C21: a request is answered at the first stage that has an answer: the
\* match, then the trailing-slash and the fixed-path redirect of the tree
\* of its method, the same three of the tree of the wildcard method, the
\* Allow handling, the not-found handler.
C21_StagesInOrder ==
    (resp.served /\ resp.panic \in {"", "handler panic"}) =>
        /\ resp.calls # <<>>
        /\ IF AnswersIn(OwnIndex) THEN AnsweredIn(OwnIndex)
           ELSE IF AnswersIn(WildIndex) THEN AnsweredIn(WildIndex)
           ELSE IF AllowAnswers
           THEN Head(resp.calls).fn \in {"GlobalOPTIONS", "OnMethodNotAllowed"}
           ELSE Head(resp.calls).fn = "OnNotFound"
        /\ resp.does # "panic" => Cardinality(Outcomes) = 1

\* A request was redirected from the tree of its method although the tree
\* of the wildcard method has a route for its path.
C21_Witness ==
    /\ resp.served /\ resp.panic = "" /\ resp.calls # <<>>
    /\ ~MatchIn(OwnIndex) /\ TsrIn(OwnIndex) /\ TsrFrom(OwnIndex)
    /\ MatchIn(WildIndex)

(***************************************************************************)
(* One tree whose patterns differ in kind at a position: static text, a    *)
(* parameter and a catch-all below /a/, with and without a trailing slash. *)
(* Every pattern is added once, with a handler of its own, and the tree is *)
(* then looked up.                                                         *)
(***************************************************************************)
MaxKinds == 3

pAWild == <<"/", "a", "/", "{", "f", ":", "*", "}">>
pABC == <<"/", "a", "/", "b", "/", "c">>
pAParamC == <<"/", "a", "/", "{", "x", "}", "/", "c">>
pAOther == <<"/", "a", "/", "{", "y", "}">>
pABSlash == <<"/", "a", "/", "b", "/">>
pAParamSlash == <<"/", "a", "/", "{", "x", "}", "/">>

KindList == <<pAB, pAParam, pAWild, pABC, pAParamC, pAOther, pABSlash, pAParamSlash>>

KindPatterns == Range(KindList)

\* The handler a pattern is added with.
KindHandler(path) == UserHandler(IndexOf(KindList, path))

KindPaths ==
    {pAB, pABC, pABSlash, <<"/", "a", "/", "c">>, <<"/", "a", "/", "c", "/">>,
     <<"/", "a", "/", "c", "/", "c">>, <<"/", "a", "/", "c", "/", "d">>,
     <<"/", "a", "/", "b", "/", "d">>}

DoAddKind ==
    /\ tres.op \in {"none", "Add", "Get"}
    /\ tres.panic = ""
    /\ nadd < MaxKinds
    /\ \E path \in KindPatterns \ DOMAIN tlog :
         LET res == TreeAdd(tree, path, KindHandler(path))
         IN  /\ tree' = res.t
             /\ tres' = [NoTres EXCEPT !.op = "Add", !.path = path, !.id = KindHandler(path).id,
                                       !.h = KindHandler(path), !.panic = res.panic]
             /\ tlog' = IF res.panic = "" THEN Put(tlog, path, [id |-> KindHandler(path).id, adds |-> 1])
                        ELSE tlog
    /\ nadd' = nadd + 1
    /\ UNCHANGED <<mux, resp, last, routes, nreg, dirty, optional, sub, subRoutes, chain, race>>

DoGetKind ==
    /\ tres.op \in {"Add", "Get"}
    /\ tres.panic = ""
    /\ \E path \in KindPaths :
         LET got == TreeGet(tree, path, TRUE, {})
         IN  tres' = [NoTres EXCEPT !.op = "Get", !.path = path, !.h = got.h, !.tsr = got.tsr, !.pv = got.pv]
    /\ UNCHANGED <<mux, resp, last, routes, nreg, dirty, tree, tlog, nadd, optional, sub, subRoutes, chain, race>>

PrecedenceNext == DoAddKind \/ DoGetKind

PrecedenceSpec == Init /\ [][PrecedenceNext]_vars

\* The kinds of the segments of a pattern, in order: 0 for static text, 1
\* for a parameter, 2 for a catch-all.
RECURSIVE KindsOf(_)
KindsOf(pattern) ==
    IF pattern = <<>> THEN <<>>
    ELSE LET slash == IndexOf(Tail(pattern), "/")
             segment == IF slash = 0 THEN Tail(pattern) ELSE SubSeq(pattern, 2, slash)
             rest == IF slash = 0 THEN <<>> ELSE SubSeq(pattern, slash + 1, Len(pattern))
             kind == IF segment = <<>> \/ Head(segment) # "{" THEN 0
                     ELSE IF SubSeq(segment, Len(segment) - 2, Len(segment)) = <<":", "*", "}">>
                     THEN 2 ELSE 1
         IN  <<kind>> \o KindsOf(rest)

\* Pattern p is static where q has a parameter or a catch-all, or has a
\* parameter where q has a catch-all, at the first segment where their
\* kinds differ.
Before(p, q) ==
    \E i \in 1..Len(KindsOf(p)) :
        /\ i <= Len(KindsOf(q))
        /\ \A j \in 1..i - 1 : KindsOf(p)[j] = KindsOf(q)[j]
        /\ KindsOf(p)[i] < KindsOf(q)[i]

\* The patterns added that match the path looked up.
KindsMatching == {p \in DOMAIN tlog : Matches(p, tres.path)}

RECURSIVE Built(_, _)
\* The tree after the patterns of order were added to t, in that order.
Built(t, order) ==
    IF order = <<>> THEN [t |-> t, panic |-> ""]
    ELSE LET res == TreeAdd(t, Head(order), KindHandler(Head(order)))
         IN  IF res.panic # "" THEN res ELSE Built(res.t, Tail(order))

\* The orders in which the patterns added can be added.
KindOrders ==
    {o \in [1..Cardinality(DOMAIN tlog) -> DOMAIN tlog] : Range(o) = DOMAIN tlog}

\* A lookup after Adds that all returned normally.
Looked == tres.op = "Get" /\ nadd = Cardinality(DOMAIN tlog)

\* C22: when the path looked up is matched by several patterns of the tree
\* that differ in kind at some segment, Get returns the handler of a pattern
\* that no other matching pattern goes before (static before parameter
\* before catch-all, at the first segment where they differ); and Get
\* returns the same for the path in every tree built by adding the same
\* patterns in another order.
C22_PrecedenceAnyOrder ==
    /\ (Looked /\ \E p, q \in KindsMatching : Before(p, q))
            => \E p \in KindsMatching :
                   /\ tres.h = KindHandler(p)
                   /\ \A q \in KindsMatching : ~Before(q, p)
    /\ Looked
            => \A o \in KindOrders :
                   LET same(b) ==
                           b.panic = ""
                               => TreeGet(b.t, tres.path, TRUE, {})
                                      = [h |-> tres.h, tsr |-> tres.tsr, pv |-> tres.pv]
                   IN  same(Built(New, o))

\* The same for the trees without a pattern that ends in a slash: there the
\* precedence holds, and the order of the Adds makes no difference.
PrecedenceWithoutSlash ==
    (\A p \in DOMAIN tlog : ~HasSuffix(p, <<"/">>)) => C22_PrecedenceAnyOrder

\* Without a trailing-slash recommendation to get in the way only the order
\* of two parameters of different names at one position matters.
PrecedenceOfHandlers ==
    /\ (Looked /\ ~tres.tsr /\ \E p, q \in KindsMatching : Before(p, q))
            => \E p \in KindsMatching :
                   /\ tres.h = KindHandler(p)
                   /\ \A q \in KindsMatching : ~Before(q, p)
    /\ (Looked /\ pAOther \notin DOMAIN tlog)
            => \A o \in KindOrders :
                   LET same(b) ==
                           b.panic = ""
                               => TreeGet(b.t, tres.path, TRUE, {})
                                      = [h |-> tres.h, tsr |-> tres.tsr, pv |-> tres.pv]
                   IN  same(Built(New, o))

(***************************************************************************)
(* A Get that runs while an Add replaces a handler.  Tree.Add takes no     *)
(* lock and stores the handler with a plain assignment (tree.go:44-49);    *)
(* the slot is of the interface type http.Handler, a pair of words (the    *)
(* dynamic type and the data).  The Add writes and the Get reads the two   *)
(* words one by one, in either order, and the steps of the two calls       *)
(* interleave.  The kind of a handler stands for its type word, its id for *)
(* its data word.                                                          *)
(***************************************************************************)
MaxRace == 3

Words == {"type", "data"}

RacePatterns == {pA, pAParam, pSWild}

RacePaths == {pA, pAB, <<"/", "s", "/", "c">>}

\* The handlers added: of two dynamic types, the id being the number of the
\* Add that brought the handler.
RaceKinds == {"user", "mux"}

RaceHandler(kind, id) == [UserHandler(id) EXCEPT !.kind = kind]

\* The interface value made of a type word and a data word.
Interface(type, data) == RaceHandler(type, data)

\* One word of the interface value h.
WordOf(h, word) == IF word = "type" THEN h.kind ELSE h.id

\* The value of a slot that held h after one word of it was written from v.
WithWord(h, word, v) ==
    IF word = "type" THEN Interface(WordOf(v, "type"), WordOf(h, "data"))
    ELSE Interface(WordOf(h, "type"), WordOf(v, "data"))

\* The handler slot of the node at loc.
SlotAt(n, loc, wild) ==
    IF wild THEN nodeAt(n, loc).wildcard.handler ELSE nodeAt(n, loc).handler

\* Tree.Add up to the return of t.root.add (tree.go:29-38).
Walk(t, path, handler) ==
    LET common(i) ==
            add(IF i > 0 /\ Len(t.root.path) > i THEN split(t.root, i) ELSE t.root,
                IF i > 0 THEN From(path, i) ELSE path, handler)
    IN  common(longestCommonPrefix(path, t.root.path))

\* Whether Tree.Add goes on to replace the handler (tree.go:42-50).
Replaces(t, r) ==
    /\ r.err \in {errSetHandler, errSetWildcardHandler}
    /\ t.Mutable
    /\ r.ok
    /\ ~nodeAt(r.n, r.loc).tsr

Racing == race.add # "idle" \/ race.get = "reading"

\* The registration phase: one caller, no lookup under way.
DoAddAlone ==
    /\ tres.op \in {"New", "Add"}
    /\ ~Racing
    /\ nadd < MaxRace
    /\ \E path \in RacePatterns \ DOMAIN tlog, kind \in RaceKinds :
         LET handler == RaceHandler(kind, nadd + 1)
             res == TreeAdd(tree, path, handler)
         IN  /\ tree' = res.t
             /\ tres' = [NoTres EXCEPT !.op = "Add", !.path = path, !.id = nadd + 1,
                                       !.h = handler, !.panic = res.panic]
             /\ tlog' = IF res.panic = ""
                        THEN Put(tlog, path, [id |-> nadd + 1, adds |-> 1, hs |-> {handler}])
                        ELSE tlog
    /\ nadd' = nadd + 1
    /\ UNCHANGED <<mux, resp, last, routes, nreg, dirty, optional, sub, subRoutes, chain, race>>

\* Tree.Add of a pattern registered before, up to the assignment of the
\* handler; an Add that does not get there ends here.
DoBeginAdd ==
    /\ tres.op \in {"New", "Add"}
    /\ race.add = "idle"
    /\ nadd < MaxRace
    /\ \E path \in DOMAIN tlog, kind \in RaceKinds :
         LET handler == RaceHandler(kind, nadd + 1)
             begun(r, res) ==
                 IF Replaces(tree, r)
                 THEN /\ tree' = [tree EXCEPT !.root = r.n]
                      /\ race' = [race EXCEPT !.add = "writing", !.path = path, !.loc = r.loc,
                                              !.wild = (r.err = errSetWildcardHandler),
                                              !.handler = handler, !.written = {}]
                      /\ tlog' = [tlog EXCEPT ![path].hs = @ \cup {handler}, ![path].adds = @ + 1]
                      /\ UNCHANGED tres
                 ELSE /\ tree' = res.t
                      /\ tres' = [NoTres EXCEPT !.op = "Add", !.path = path, !.id = nadd + 1,
                                                !.dup = TRUE, !.h = handler, !.panic = res.panic]
                      /\ tlog' = [tlog EXCEPT ![path].adds = @ + 1]
                      /\ UNCHANGED race
         IN  begun(Walk(tree, path, handler), TreeAdd(tree, path, handler))
    /\ nadd' = nadd + 1
    /\ UNCHANGED <<mux, resp, last, routes, nreg, dirty, optional, sub, subRoutes, chain>>

\* n.handler = handler, or n.wildcard.handler = handler: one word of it.
DoWriteWord ==
    /\ race.add = "writing"
    /\ \E word \in Words \ race.written :
         /\ tree' = [tree EXCEPT !.root =
                        setHandlerAt(@, race.loc, race.wild,
                                     WithWord(SlotAt(@, race.loc, race.wild), word, race.handler))]
         /\ IF race.written \cup {word} = Words
            THEN /\ race' = [race EXCEPT !.add = "idle", !.written = Words]
                 /\ tres' = [NoTres EXCEPT !.op = "Add", !.path = race.path, !.id = race.handler.id,
                                           !.dup = TRUE, !.h = race.handler]
            ELSE /\ race' = [race EXCEPT !.written = @ \cup {word}]
                 /\ UNCHANGED tres
    /\ UNCHANGED <<mux, resp, last, routes, nreg, dirty, tlog, nadd, optional, sub, subRoutes, chain>>

\* Tree.Get up to the return of the handler it found; a Get that finds none
\* ends here.
DoBeginGet ==
    /\ tres.op \in {"New", "Add"}
    /\ race.get # "reading"
    /\ \E path \in RacePaths :
         LET begun(got) ==
                 IF got.h = NilHandler
                 THEN race' = [race EXCEPT !.get = "done", !.gpath = path, !.words = EmptyMap,
                                           !.got = NilHandler]
                 ELSE race' = [race EXCEPT !.get = "reading", !.gpath = path, !.words = EmptyMap,
                                           !.got = NilHandler]
         IN  begun(TreeGet(tree, path, TRUE, {}))
    /\ UNCHANGED <<mux, resp, last, routes, nreg, dirty, tree, tres, tlog, nadd, optional, sub, subRoutes,
                   chain>>

\* return n.handler, false: the load of one word of the slot.
DoReadWord ==
    /\ race.get = "reading"
    /\ \E word \in Words \ DOMAIN race.words :
         LET read(ws) ==
                 IF DOMAIN ws = Words
                 THEN race' = [race EXCEPT !.get = "done", !.words = ws,
                                           !.got = Interface(ws["type"], ws["data"])]
                 ELSE race' = [race EXCEPT !.words = ws]
         IN  read(Put(race.words, word, WordOf(TreeGet(tree, race.gpath, TRUE, {}).h, word)))
    /\ UNCHANGED <<mux, resp, last, routes, nreg, dirty, tree, tres, tlog, nadd, optional, sub, subRoutes,
                   chain>>

ConcurrentNext == DoNew \/ DoAddAlone \/ DoBeginAdd \/ DoWriteWord \/ DoBeginGet \/ DoReadWord

ConcurrentSpec == Init /\ [][ConcurrentNext]_vars

\* The handlers that Add was called with for the patterns matching path.
WholeHandlers(path) ==
    UNION {tlog[p].hs : p \in {q \in DOMAIN tlog : Matches(q, path)}}

\* The pattern whose handler is being replaced.
Replacing == IF race.add = "writing" THEN {race.path} ELSE {}

\* C23: a Get that runs while an Add replaces a handler on a mutable tree
\* returns a handler that Add was called with for a pattern matching the
\* path: the old one or the new one, whole.
C23_ConcurrentGetWhole ==
    (race.get = "done" /\ race.got # NilHandler) => race.got \in WholeHandlers(race.gpath)

\* The walk of an Add that replaces a handler writes nothing to the tree, a
\* handler that no Add has replaced is returned whole, and so is one that
\* was replaced by handlers of its own dynamic type only.
RaceElsewhereWhole ==
    /\ \A path \in DOMAIN tlog, kind \in RaceKinds :
           LET still(r) == Replaces(tree, r) => r.n = tree.root
           IN  still(Walk(tree, path, RaceHandler(kind, nadd + 1)))
    /\ (race.get = "done" /\ race.got # NilHandler
            /\ \A p \in DOMAIN tlog : Matches(p, race.gpath) => tlog[p].adds = 1)
        => race.got \in WholeHandlers(race.gpath)
    /\ (race.get = "done" /\ race.got # NilHandler
            /\ \A h1, h2 \in WholeHandlers(race.gpath) : h1.kind = h2.kind)
        => race.got \in WholeHandlers(race.gpath)

\* The path with its one trailing slash removed, or with one added.
OtherSlash(path) ==
    IF HasSuffix(path, <<"/">>) THEN SubSeq(path, 1, Len(path) - 1) ELSE path \o <<"/">>

\* C24: Tree.Get never returns a handler together with a trailing-slash
\* recommendation, and it recommends only when a pattern of the tree matches
\* the path with one trailing '/' added or removed; so its result is a
\* handler, a recommendation or neither.
C24_GetShapes ==
    tres.op = "Get"
        => /\ ~(tres.h # NilHandler /\ tres.tsr)
           /\ tres.tsr => \E p \in DOMAIN tlog : Matches(p, OtherSlash(tres.path))

\* /a/ was looked up in a tree that holds /a and not /a/: no handler, and the
\* recommendation.
C24_Witness ==
    /\ tres.op = "Get"
    /\ tres.path = pASlash
    /\ pA \in DOMAIN tlog /\ pASlash \notin DOMAIN tlog
    /\ tres.tsr /\ tres.h = NilHandler

\* What the trees of m resolve a method and a path to: the handler and the
\* recommendation, nothing where the method has no tree.
ResolvedBy(m, method, path) ==
    LET got(i) ==
            IF i > -1 /\ inRange(m, i) /\ ~treeAt(m, i).nil
            THEN TreeGetWithoutValues(treeAt(m, i).ref, path, FALSE, {})
            ELSE notFound({})
    IN  got(methodIndexOf(m, method))

\* The router answers the same after the step as before it: the ledger of
\* List(), the Allow cache and what every tree resolves.
SameRouter ==
    /\ List(mux') = List(mux)
    /\ mux'.globalAllowed = mux.globalAllowed
    /\ \A method \in ReqMethods \cup {MethodWild}, path \in ReqPaths :
           ResolvedBy(mux', method, path) = ResolvedBy(mux, method, path)

\* C25: a call of Handle that panics leaves the ledger of List(), the Allow
\* cache and the routes the trees resolve as they were before the call.
C25_HandleAllOrNothing ==
    [][(last'.op = "Handle" /\ last'.panic # "" /\ mux' # mux) => SameRouter]_vars

\* The calls of Handle that panic on their arguments change nothing.
HandleChecksFirst ==
    (last.op = "Handle"
        /\ last.panic \in {"method must not be empty", "handler must not be nil",
                           "path must begin with '/'"})
        => ~last.changed

\* The header of this name, if the router set it, was in place when the
\* status of the response was written.
SetBeforeStatus(key) ==
    (key \in DOMAIN resp.w.header /\ resp.w.status # 0)
        => key \in DOMAIN resp.w.sent /\ resp.w.sent[key] = resp.w.header[key]

\* C26: in every response of the router the Location header of a redirect
\* and the Allow header of an OPTIONS or 405 answer are set before the status
\* code is written, so that no header is added to a committed response.
C26_HeadersBeforeStatus ==
    resp.served => SetBeforeStatus("Location") /\ SetBeforeStatus("Allow")

\* The Allow header is set before the fallback handler runs and writes the
\* status.
AllowBeforeStatus == resp.served => SetBeforeStatus("Allow")

(***************************************************************************)
(* The owner of the router assigns its handlers at any time: before,       *)
(* between and after the registrations.  In this machine a route keeps,    *)
(* in routes, the OnError the router had when Handle was called.           *)
(***************************************************************************)
SinkInputs == {<<"GET", pA>>, <<"POST", pA>>, <<"GET", pAB>>}

\* The values the owner assigns, by field.
SinkValues ==
    [OnError |-> {"DefaultErrorHandler", "user", "nil"},
     OnNotFound |-> {"DefaultOnNotFound", "user"},
     OnMethodNotAllowed |-> {"DefaultOnMethodNotAllowed", "user", "nil"},
     OnPanic |-> {"DefaultOnPanic", "user", "nil"},
     GlobalOPTIONS |-> {"nil", "user"}]

DoSetSink ==
    /\ ~resp.served
    /\ \E field \in DOMAIN SinkValues :
         \E value \in SinkValues[field] \ {mux[field]} :
            mux' = [mux EXCEPT ![field] = value]
    /\ UNCHANGED <<resp, last, routes, nreg, dirty, tree, tres, tlog, nadd, optional, sub, subRoutes, chain,
                   race>>

DoHandleSink ==
    /\ ~resp.served
    /\ nreg < MaxRoutes
    /\ \E in \in SinkInputs :
         LET registered1(res) ==
                 /\ mux' = res.m
                 /\ last' = [op |-> "Handle", method |-> in[1], path |-> in[2], nilHandler |-> FALSE,
                             panic |-> res.panic, changed |-> res.m # mux]
                 /\ routes' = IF res.panic = ""
                              THEN routes \cup {[method |-> in[1], pattern |-> in[2], id |-> nreg + 1,
                                                 onerr |-> mux.OnError]}
                              ELSE routes
                 /\ nreg' = IF res.m # mux THEN nreg + 1 ELSE nreg
                 /\ dirty' = (dirty \/ (res.panic # "" /\ res.m # mux))
                 /\ chain' = IF res.panic = "" THEN Put(chain, nreg + 1, mux.mw) ELSE chain
         IN  registered1(Handle(mux, in[1], in[2], UserHandler(nreg + 1)))
    /\ UNCHANGED <<resp, tree, tres, tlog, nadd, optional, sub, subRoutes, race>>

DoServeSink ==
    /\ ~resp.served
    /\ last.op # "none"
    /\ \E method \in {"GET", "POST", "OPTIONS"}, path \in {pA, pAB, <<"/", "z">>},
          does \in {"ok", "panic"} \cup Errors :
         resp' = ServeHTTP(mux, Request(method, path, <<>>, <<>>), does)
    /\ UNCHANGED <<mux, last, routes, nreg, dirty, tree, tres, tlog, nadd, optional, sub, subRoutes, chain,
                   race>>

SinkNext == DoSetSink \/ DoHandleSink \/ DoServeSink

SinkSpec == Init /\ [][SinkNext]_vars

ErrorCalls == {i \in DOMAIN resp.calls : resp.calls[i].fn = "OnError"}

\* The handler of route rt ran and returned an error.
Failed(rt) == resp.served /\ Dispatched(rt.id) /\ resp.does \in Errors

\* C27: when a route's handler returns an error, the function called with
\* it is the OnError the router had when the route was registered, called
\* once with that error (the call of a nil OnError panics), whatever OnError
\* is when the request comes; OnNotFound, OnMethodNotAllowed, OnPanic and
\* GlobalOPTIONS are the ones the router has when the request comes.
C27_SinkFixedAtRegistration ==
    /\ \A rt \in routes :
           Failed(rt)
               => IF rt.onerr = "nil"
                  THEN ErrorCalls = {} /\ resp.panic = "nil pointer dereference"
                  ELSE /\ Cardinality(ErrorCalls) = 1
                       /\ \A i \in ErrorCalls : resp.calls[i].arg = <<rt.onerr, resp.does>>
    /\ resp.served
           => /\ \A i \in DOMAIN resp.calls :
                     /\ resp.calls[i].fn = "OnNotFound" => resp.calls[i].arg = <<mux.OnNotFound>>
                     /\ resp.calls[i].fn = "OnMethodNotAllowed"
                            => resp.calls[i].arg = <<mux.OnMethodNotAllowed>>
                     /\ resp.calls[i].fn = "GlobalOPTIONS" => resp.calls[i].arg = <<mux.GlobalOPTIONS>>
              /\ resp.panic # "" => (PanicCalls # {} <=> mux.OnPanic # "nil")
              /\ PanicCalls # {} => (resp.w.status = 500 <=> mux.OnPanic = "DefaultOnPanic")

\* A route registered while OnError was the owner's function returned an
\* error after OnError had been set back to the default: the owner's
\* function was called.
C27_Witness ==
    \E rt \in routes :
        /\ Failed(rt)
        /\ rt.onerr = "user" /\ mux.OnError = "DefaultErrorHandler"
        /\ \E i \in ErrorCalls : resp.calls[i].arg = <<"user", resp.does>>

(***************************************************************************)
(* Handle and Merge in any order, with methods the router does not know:   *)
(* on the router itself and on a second router that is merged into it.     *)
(***************************************************************************)
IndexInputs ==
    {<<"GET", pA>>, <<"OPTIONS", pA>>, <<"CUSTOM", pA>>, <<"OTHER", pA>>, <<MethodWild, pA>>,
     <<"CUSTOM", pAParam>>}

IndexSourceInputs == {<<"GET", pSStar>>, <<"CUSTOM", pSStar>>, <<"PURGE", pA>>}

DoHandleIndexed ==
    /\ nreg < MaxRoutes
    /\ \E in \in IndexInputs :
         Registered("Handle", in[1], in[2], FALSE, Handle(mux, in[1], in[2], UserHandler(nreg + 1)),
                    {in[2]})

DoHandleSourceIndexed ==
    /\ Cardinality(subRoutes) < MaxRoutes
    /\ \E in \in IndexSourceInputs :
         LET added(r) ==
                 /\ r.panic = ""
                 /\ sub' = r.m
                 /\ subRoutes' = subRoutes \cup {Route(in[1], in[2], 11 + Cardinality(subRoutes))}
         IN  added(Handle(sub, in[1], in[2], UserHandler(11 + Cardinality(subRoutes))))
    /\ UNCHANGED <<mux, resp, last, routes, nreg, dirty, tree, tres, tlog, nadd, optional, chain, race>>

DoMergeIndexed ==
    /\ nreg < MaxRoutes
    /\ \E prefix \in {pP, <<>>}, methods \in Orders(DOMAIN sub.registeredPaths) :
         Registered("Merge", "", prefix, FALSE, MergeMux(mux, prefix, sub, methods), {})

DoMergeHandler ==
    /\ nreg < MaxRoutes
    /\ \E prefix \in {pMount, <<"/", "m">>} :
         Registered("Merge", MethodWild, prefix, FALSE, Merge(mux, prefix, nreg + 1), {prefix})

IndexNext == DoHandleIndexed \/ DoHandleSourceIndexed \/ DoMergeIndexed \/ DoMergeHandler

IndexSpec == Init /\ [][IndexNext]_vars

\* The nine standard methods and the wildcard method, by slot.
FixedSlots == <<"GET", "HEAD", "POST", "PUT", "PATCH", "DELETE", "CONNECT", "OPTIONS", "TRACE", MethodWild>>

\* The methods of the ledger of a router resolve to trees of its own, each
\* to another one, and the fixed slots are where they were.
IndexSound(m) ==
    /\ \A method \in DOMAIN m.registeredPaths :
           /\ inRange(m, methodIndexOf(m, method))
           /\ ~treeAt(m, methodIndexOf(m, method)).nil
    /\ \A k \in DOMAIN FixedSlots : methodIndexOf(m, FixedSlots[k]) = k - 1
    /\ \A m1, m2 \in DOMAIN m.registeredPaths :
           m1 # m2 => methodIndexOf(m, m1) # methodIndexOf(m, m2)

\* C28: after any sequence of Handle and Merge calls every method of the
\* ledger resolves through methodIndexOf to a tree of the router's array
\* that is not nil, the standard methods and the wildcard method have the
\* slots 0..9, and no two methods share an index.
C28_MethodIndexSound == IndexSound(mux) /\ IndexSound(sub)

\* A router with a method of its own beyond the standard ones after the
\* merge of a router whose route is under such a method too: the route
\* arrived in the wildcard tree.
C28_Witness ==
    /\ last.op = "Merge" /\ last.method = "" /\ last.panic = ""
    /\ "CUSTOM" \in DOMAIN mux.registeredPaths /\ methodIndexOf(mux, "CUSTOM") = 10
    /\ "CUSTOM" \in DOMAIN sub.registeredPaths /\ methodIndexOf(sub, "CUSTOM") = 10
    /\ MethodWild \in DOMAIN mux.registeredPaths
    /\ ~treeAt(mux, 9).nil /\ Len(mux.trees) = 11

(***************************************************************************)
(* getOptionalPaths on any pattern Handle passes to it: the patterns that  *)
(* begin with '/', over the bytes the loops tell apart and one other byte. *)
(***************************************************************************)
\* Bytes of a pattern per input.
MaxLen == 6

Bytes == {"/", "{", "}", "?", ":", "x"}

\* The patterns that pass validatePath, up to MaxLen bytes.
ScanPatterns == UNION {{<<"/">> \o rest : rest \in [1..(n - 1) -> Bytes]} : n \in 1..MaxLen}

PatternInit ==
    /\ mux = NewMux /\ resp = NoResp /\ last = NoCall /\ routes = {} /\ nreg = 0
    /\ dirty = FALSE /\ tree = New /\ tres = NoTres /\ tlog = EmptyMap /\ nadd = 0
    /\ sub = NewMux /\ subRoutes = {} /\ chain = EmptyMap /\ race = NoRace
    /\ \E path \in ScanPatterns : optional = [NoOptional EXCEPT !.path = path]

DoScanPattern ==
    /\ ~optional.done
    /\ validatePath(optional.path)
    /\ optional' = [optional EXCEPT !.paths = getOptionalPaths(optional.path), !.done = TRUE]
    /\ UNCHANGED <<mux, resp, last, routes, nreg, dirty, tree, tres, tlog, nadd, sub, subRoutes, chain, race>>

PatternNext == DoScanPattern

PatternSpec == PatternInit /\ [][PatternNext]_vars

(***************************************************************************)
(* Properties: getOptionalPaths on any pattern                             *)
(***************************************************************************)
NoDuplicates(paths) == \A i, j \in DOMAIN paths : i # j => paths[i] # paths[j]

\* C29: getOptionalPaths returns for every pattern that begins with '/',
\* unbalanced or nested braces, repeated '?' and '?' inside a constraint
\* included, without a slice outside the pattern, and the sequence it
\* returns holds no pattern twice.
C29_ScanReturnsDistinct ==
    /\ ~optional.done => ENABLED DoScanPattern
    /\ optional.done => optional.paths # OutOfRange /\ NoDuplicates(optional.paths)

\* The call returns for every such pattern, and no slice is outside it.
ScanReturnsInRange ==
    /\ ~optional.done => ENABLED DoScanPattern
    /\ optional.done => optional.paths # OutOfRange

\* The positions of the pattern "/" in what was returned.
RootAt == {i \in DOMAIN optional.paths : optional.paths[i] = <<"/">>}

\* A pattern returned twice is the root pattern of a first segment with
\* more than one '?' outside a constraint.
DuplicatesOfRootOnly ==
    optional.done =>
        /\ NoDuplicates(SelectSeq(optional.paths, LAMBDA p : p # <<"/">>))
        /\ Cardinality(RootAt) > 1 => Len(optional.path) > 3 /\ optional.path[2] = "{"

====
